---- MODULE Spec2Model ----
(***************************************************************************)
(* Model of scripts/ragas_eval.py: the checks of main before the loop,     *)
(* grouping of the input rows, metric eligibility and selection per group, *)
(* per-metric scoring with failure isolation, and assembly of the report.  *)
(*                                                                         *)
(* JSON values are tagged tuples:                                          *)
(*   <<"null">>  <<"str", chars>>  <<"list", items>>  <<"num", p, q>>      *)
(*   <<"nan">>  <<"bool", b>>  <<"dict", mapping>>                         *)
(* A str carries its characters as a sequence of Unicode code points so    *)
(* that strip/lower/replace are computed as Python computes them.  A num   *)
(* p/q is a reduced fraction (q > 0); the rounding of floats is not        *)
(* modelled.  A row (a Python dict) is a function from the keys it holds   *)
(* to values; a key it does not hold is not in its DOMAIN.  Metric names,  *)
(* field names, command-line values and error texts are atomic strings;    *)
(* "" stands for a command-line or environment value that is None or       *)
(* empty.                                                                  *)
(***************************************************************************)
EXTENDS Integers, Sequences, FiniteSets, TLC

VARIABLES
    input_file,         \* the text of args.input, by documents: see load_rows
    group_by,           \* args.group_by
    llm_model,          \* args.llm_model
    embedding_model,    \* args.embedding_model
    explicit_region,    \* args.region
    environ,            \* os.environ, the three region variables
    installed,          \* the evaluator back ends that can be constructed
    metric_classes,     \* import_metrics(): registry key -> metric class
    output_writable,    \* whether args.output can be written
    requested_metrics,  \* main: parse_metric_list(args.metrics); <<>> is None
    pc,                 \* position in main
    rows,               \* main: the loaded input rows
    region,             \* main: resolve_region(args.region)
    provider,           \* main: the back end build_evaluator_models chose
    grouped,            \* main: group_rows(...), a dict in insertion order
    gi,                 \* main: index of the group the loop is at
    metric_names,       \* main: selected metrics of the current group
    available_metrics,  \* main: eligible metrics of the current group
    metrics,            \* main: build_metrics(metric_names, ...)
    mi,                 \* score_rows: index of the metric the loop is at
    scored_rows,        \* score_rows: the rows being annotated
    summary,            \* score_rows: metric name -> mean
    failures,           \* score_rows: metric name -> error message
    groups_output,      \* main: the group reports, in insertion order
    flattened_rows,     \* main: the flattened row list
    summary_by_group,   \* main: group key -> summary, in insertion order
    failures_by_group,  \* main: group key -> failures, in insertion order
    report,             \* the written report, <<>> while none is written
    error,              \* the exception that ended the run, <<>> if none
    calls               \* every invocation of the Metric Scorer so far

vars == << input_file, group_by, llm_model, embedding_model, explicit_region,
           environ, installed, metric_classes, output_writable,
           requested_metrics, pc, rows,
           region, provider, grouped, gi, metric_names, available_metrics,
           metrics, mi, scored_rows, summary, failures, groups_output,
           flattened_rows, summary_by_group, failures_by_group, report,
           error, calls >>

(***************************************************************************)
(* Bounds                                                                  *)
(***************************************************************************)
MaxRows == 2

MaxOrderRows == 3

MaxEligRows == 2

(***************************************************************************)
(* Values                                                                  *)
(***************************************************************************)
None == <<"null">>

NaN == <<"nan">>

Str(chars) == <<"str", chars>>

List(items) == <<"list", items>>

Num(p, q) == <<"num", p, q>>

Dict(mapping) == <<"dict", mapping>>

IsStr(v) == v[1] = "str"

IsList(v) == v[1] = "list"

IsDict(v) == v[1] = "dict"

\* isinstance(v, (int, float)): a bool is an int, NaN is a float
IsNumber(v) == v[1] \in {"num", "nan", "bool"}

Get(row, key) == IF key \in DOMAIN row THEN row[key] ELSE None

Put(row, key, value) ==
    [k \in (DOMAIN row) \cup {key} |-> IF k = key THEN value ELSE row[k]]

EmptyMap == [k \in {} |-> None]

(***************************************************************************)
(* Strings: sequences of code points.  text(...) writes a literal of       *)
(* printable ASCII characters; Printable lists them from U+0020 on, the    *)
(* three that a literal here cannot hold by their names.                   *)
(***************************************************************************)
Printable ==
    << " ", "!", "(quotation mark)", "#", "$", "%", "&", "'", "(", ")", "*", "+", ",", "-",
       ".", "/", "0", "1", "2", "3", "4", "5", "6", "7", "8", "9", ":", ";",
       "<", "=", ">", "?", "@", "A", "B", "C", "D", "E", "F", "G", "H", "I",
       "J", "K", "L", "M", "N", "O", "P", "Q", "R", "S", "T", "U", "V", "W",
       "X", "Y", "Z", "[", "(reverse solidus)", "]", "^", "_", "(grave accent)", "a", "b", "c", "d", "e",
       "f", "g", "h", "i", "j", "k", "l", "m", "n", "o", "p", "q", "r", "s",
       "t", "u", "v", "w", "x", "y", "z", "{", "|", "}", "~" >>

ord(ch) == 31 + (CHOOSE i \in 1..Len(Printable) : Printable[i] = ch)

text(s) == [i \in 1..Len(s) |-> ord(s[i])]

\* the characters c with c.isspace(), which str.strip() removes
Whitespace ==
    { 9, 10, 11, 12, 13, 28, 29, 30, 31, 32, 133, 160, 5760 }
    \cup (8192..8202) \cup { 8232, 8233, 8239, 8287, 12288 }

RECURSIVE lstrip(_)
lstrip(s) ==
    IF s # <<>> /\ Head(s) \in Whitespace THEN lstrip(Tail(s)) ELSE s

RECURSIVE rstrip(_)
rstrip(s) ==
    IF s # <<>> /\ s[Len(s)] \in Whitespace
    THEN rstrip(SubSeq(s, 1, Len(s) - 1))
    ELSE s

strip(s) == rstrip(lstrip(s))

(***************************************************************************)
(* str.lower().  LowerRuns is the simple lower-case mapping of Unicode     *)
(* 14.0: <<first, last, step, delta>> maps the code points first,          *)
(* first + step, ..., last to themselves plus delta.  U+0130 lowers to two *)
(* characters.  U+03A3 lowers to the final sigma U+03C2 when it ends a     *)
(* word: the closest character before it that is not case-ignorable is     *)
(* cased, and the closest such character after it, if any, is not.         *)
(***************************************************************************)
LowerRuns ==
    {
      <<65, 90, 1, 32>>, <<192, 214, 1, 32>>, <<216, 222, 1, 32>>, <<256, 302, 2, 1>>,
      <<306, 310, 2, 1>>, <<313, 327, 2, 1>>, <<330, 374, 2, 1>>, <<376, 376, 1, -121>>,
      <<377, 381, 2, 1>>, <<385, 385, 1, 210>>, <<386, 388, 2, 1>>, <<390, 390, 1, 206>>,
      <<391, 391, 1, 1>>, <<393, 394, 1, 205>>, <<395, 395, 1, 1>>, <<398, 398, 1, 79>>,
      <<399, 399, 1, 202>>, <<400, 400, 1, 203>>, <<401, 401, 1, 1>>, <<403, 403, 1, 205>>,
      <<404, 404, 1, 207>>, <<406, 406, 1, 211>>, <<407, 407, 1, 209>>, <<408, 408, 1, 1>>,
      <<412, 412, 1, 211>>, <<413, 413, 1, 213>>, <<415, 415, 1, 214>>, <<416, 420, 2, 1>>,
      <<422, 422, 1, 218>>, <<423, 423, 1, 1>>, <<425, 425, 1, 218>>, <<428, 428, 1, 1>>,
      <<430, 430, 1, 218>>, <<431, 431, 1, 1>>, <<433, 434, 1, 217>>, <<435, 437, 2, 1>>,
      <<439, 439, 1, 219>>, <<440, 440, 1, 1>>, <<444, 444, 1, 1>>, <<452, 452, 1, 2>>,
      <<453, 453, 1, 1>>, <<455, 455, 1, 2>>, <<456, 456, 1, 1>>, <<458, 458, 1, 2>>,
      <<459, 475, 2, 1>>, <<478, 494, 2, 1>>, <<497, 497, 1, 2>>, <<498, 500, 2, 1>>,
      <<502, 502, 1, -97>>, <<503, 503, 1, -56>>, <<504, 542, 2, 1>>, <<544, 544, 1, -130>>,
      <<546, 562, 2, 1>>, <<570, 570, 1, 10795>>, <<571, 571, 1, 1>>, <<573, 573, 1, -163>>,
      <<574, 574, 1, 10792>>, <<577, 577, 1, 1>>, <<579, 579, 1, -195>>, <<580, 580, 1, 69>>,
      <<581, 581, 1, 71>>, <<582, 590, 2, 1>>, <<880, 882, 2, 1>>, <<886, 886, 1, 1>>,
      <<895, 895, 1, 116>>, <<902, 902, 1, 38>>, <<904, 906, 1, 37>>, <<908, 908, 1, 64>>,
      <<910, 911, 1, 63>>, <<913, 929, 1, 32>>, <<931, 939, 1, 32>>, <<975, 975, 1, 8>>,
      <<984, 1006, 2, 1>>, <<1012, 1012, 1, -60>>, <<1015, 1015, 1, 1>>, <<1017, 1017, 1, -7>>,
      <<1018, 1018, 1, 1>>, <<1021, 1023, 1, -130>>, <<1024, 1039, 1, 80>>, <<1040, 1071, 1, 32>>,
      <<1120, 1152, 2, 1>>, <<1162, 1214, 2, 1>>, <<1216, 1216, 1, 15>>, <<1217, 1229, 2, 1>>,
      <<1232, 1326, 2, 1>>, <<1329, 1366, 1, 48>>, <<4256, 4293, 1, 7264>>, <<4295, 4295, 1, 7264>>,
      <<4301, 4301, 1, 7264>>, <<5024, 5103, 1, 38864>>, <<5104, 5109, 1, 8>>, <<7312, 7354, 1, -3008>>,
      <<7357, 7359, 1, -3008>>, <<7680, 7828, 2, 1>>, <<7838, 7838, 1, -7615>>, <<7840, 7934, 2, 1>>,
      <<7944, 7951, 1, -8>>, <<7960, 7965, 1, -8>>, <<7976, 7983, 1, -8>>, <<7992, 7999, 1, -8>>,
      <<8008, 8013, 1, -8>>, <<8025, 8031, 2, -8>>, <<8040, 8047, 1, -8>>, <<8072, 8079, 1, -8>>,
      <<8088, 8095, 1, -8>>, <<8104, 8111, 1, -8>>, <<8120, 8121, 1, -8>>, <<8122, 8123, 1, -74>>,
      <<8124, 8124, 1, -9>>, <<8136, 8139, 1, -86>>, <<8140, 8140, 1, -9>>, <<8152, 8153, 1, -8>>,
      <<8154, 8155, 1, -100>>, <<8168, 8169, 1, -8>>, <<8170, 8171, 1, -112>>, <<8172, 8172, 1, -7>>,
      <<8184, 8185, 1, -128>>, <<8186, 8187, 1, -126>>, <<8188, 8188, 1, -9>>, <<8486, 8486, 1, -7517>>,
      <<8490, 8490, 1, -8383>>, <<8491, 8491, 1, -8262>>, <<8498, 8498, 1, 28>>, <<8544, 8559, 1, 16>>,
      <<8579, 8579, 1, 1>>, <<9398, 9423, 1, 26>>, <<11264, 11311, 1, 48>>, <<11360, 11360, 1, 1>>,
      <<11362, 11362, 1, -10743>>, <<11363, 11363, 1, -3814>>, <<11364, 11364, 1, -10727>>, <<11367, 11371, 2, 1>>,
      <<11373, 11373, 1, -10780>>, <<11374, 11374, 1, -10749>>, <<11375, 11375, 1, -10783>>, <<11376, 11376, 1, -10782>>,
      <<11378, 11378, 1, 1>>, <<11381, 11381, 1, 1>>, <<11390, 11391, 1, -10815>>, <<11392, 11490, 2, 1>>,
      <<11499, 11501, 2, 1>>, <<11506, 11506, 1, 1>>, <<42560, 42604, 2, 1>>, <<42624, 42650, 2, 1>>,
      <<42786, 42798, 2, 1>>, <<42802, 42862, 2, 1>>, <<42873, 42875, 2, 1>>, <<42877, 42877, 1, -35332>>,
      <<42878, 42886, 2, 1>>, <<42891, 42891, 1, 1>>, <<42893, 42893, 1, -42280>>, <<42896, 42898, 2, 1>>,
      <<42902, 42920, 2, 1>>, <<42922, 42922, 1, -42308>>, <<42923, 42923, 1, -42319>>, <<42924, 42924, 1, -42315>>,
      <<42925, 42925, 1, -42305>>, <<42926, 42926, 1, -42308>>, <<42928, 42928, 1, -42258>>, <<42929, 42929, 1, -42282>>,
      <<42930, 42930, 1, -42261>>, <<42931, 42931, 1, 928>>, <<42932, 42946, 2, 1>>, <<42948, 42948, 1, -48>>,
      <<42949, 42949, 1, -42307>>, <<42950, 42950, 1, -35384>>, <<42951, 42953, 2, 1>>, <<42960, 42960, 1, 1>>,
      <<42966, 42968, 2, 1>>, <<42997, 42997, 1, 1>>, <<65313, 65338, 1, 32>>, <<66560, 66599, 1, 40>>,
      <<66736, 66771, 1, 40>>, <<66928, 66938, 1, 39>>, <<66940, 66954, 1, 39>>, <<66956, 66962, 1, 39>>,
      <<66964, 66965, 1, 39>>, <<68736, 68786, 1, 64>>, <<71840, 71871, 1, 32>>, <<93760, 93791, 1, 32>>,
      <<125184, 125217, 1, 34>> }

\* ranges <<first, last>> of the cased characters that are not
\* case-ignorable
CasedRanges ==
    {
      <<65, 90>>, <<97, 122>>, <<170, 170>>, <<181, 181>>, <<186, 186>>,
      <<192, 214>>, <<216, 246>>, <<248, 442>>, <<444, 447>>, <<452, 659>>,
      <<661, 687>>, <<880, 883>>, <<886, 887>>, <<891, 893>>, <<895, 895>>,
      <<902, 902>>, <<904, 906>>, <<908, 908>>, <<910, 929>>, <<931, 1013>>,
      <<1015, 1153>>, <<1162, 1327>>, <<1329, 1366>>, <<1376, 1416>>, <<4256, 4293>>,
      <<4295, 4295>>, <<4301, 4301>>, <<4304, 4346>>, <<4349, 4351>>, <<5024, 5109>>,
      <<5112, 5117>>, <<7296, 7304>>, <<7312, 7354>>, <<7357, 7359>>, <<7424, 7467>>,
      <<7531, 7543>>, <<7545, 7578>>, <<7680, 7957>>, <<7960, 7965>>, <<7968, 8005>>,
      <<8008, 8013>>, <<8016, 8023>>, <<8025, 8025>>, <<8027, 8027>>, <<8029, 8029>>,
      <<8031, 8061>>, <<8064, 8116>>, <<8118, 8124>>, <<8126, 8126>>, <<8130, 8132>>,
      <<8134, 8140>>, <<8144, 8147>>, <<8150, 8155>>, <<8160, 8172>>, <<8178, 8180>>,
      <<8182, 8188>>, <<8450, 8450>>, <<8455, 8455>>, <<8458, 8467>>, <<8469, 8469>>,
      <<8473, 8477>>, <<8484, 8484>>, <<8486, 8486>>, <<8488, 8488>>, <<8490, 8493>>,
      <<8495, 8500>>, <<8505, 8505>>, <<8508, 8511>>, <<8517, 8521>>, <<8526, 8526>>,
      <<8544, 8575>>, <<8579, 8580>>, <<9398, 9449>>, <<11264, 11387>>, <<11390, 11492>>,
      <<11499, 11502>>, <<11506, 11507>>, <<11520, 11557>>, <<11559, 11559>>, <<11565, 11565>>,
      <<42560, 42605>>, <<42624, 42651>>, <<42786, 42863>>, <<42865, 42887>>, <<42891, 42894>>,
      <<42896, 42954>>, <<42960, 42961>>, <<42963, 42963>>, <<42965, 42969>>, <<42997, 42998>>,
      <<43002, 43002>>, <<43824, 43866>>, <<43872, 43880>>, <<43888, 43967>>, <<64256, 64262>>,
      <<64275, 64279>>, <<65313, 65338>>, <<65345, 65370>>, <<66560, 66639>>, <<66736, 66771>>,
      <<66776, 66811>>, <<66928, 66938>>, <<66940, 66954>>, <<66956, 66962>>, <<66964, 66965>>,
      <<66967, 66977>>, <<66979, 66993>>, <<66995, 67001>>, <<67003, 67004>>, <<68736, 68786>>,
      <<68800, 68850>>, <<71840, 71903>>, <<93760, 93823>>, <<119808, 119892>>, <<119894, 119964>>,
      <<119966, 119967>>, <<119970, 119970>>, <<119973, 119974>>, <<119977, 119980>>, <<119982, 119993>>,
      <<119995, 119995>>, <<119997, 120003>>, <<120005, 120069>>, <<120071, 120074>>, <<120077, 120084>>,
      <<120086, 120092>>, <<120094, 120121>>, <<120123, 120126>>, <<120128, 120132>>, <<120134, 120134>>,
      <<120138, 120144>>, <<120146, 120485>>, <<120488, 120512>>, <<120514, 120538>>, <<120540, 120570>>,
      <<120572, 120596>>, <<120598, 120628>>, <<120630, 120654>>, <<120656, 120686>>, <<120688, 120712>>,
      <<120714, 120744>>, <<120746, 120770>>, <<120772, 120779>>, <<122624, 122633>>, <<122635, 122654>>,
      <<125184, 125251>>, <<127280, 127305>>, <<127312, 127337>>, <<127344, 127369>> }

\* ranges <<first, last>> of the case-ignorable characters
CaseIgnorableRanges ==
    {
      <<39, 39>>, <<46, 46>>, <<58, 58>>, <<94, 94>>, <<96, 96>>,
      <<168, 168>>, <<173, 173>>, <<175, 175>>, <<180, 180>>, <<183, 184>>,
      <<688, 879>>, <<884, 885>>, <<890, 890>>, <<900, 901>>, <<903, 903>>,
      <<1155, 1161>>, <<1369, 1369>>, <<1375, 1375>>, <<1425, 1469>>, <<1471, 1471>>,
      <<1473, 1474>>, <<1476, 1477>>, <<1479, 1479>>, <<1524, 1524>>, <<1536, 1541>>,
      <<1552, 1562>>, <<1564, 1564>>, <<1600, 1600>>, <<1611, 1631>>, <<1648, 1648>>,
      <<1750, 1757>>, <<1759, 1768>>, <<1770, 1773>>, <<1807, 1807>>, <<1809, 1809>>,
      <<1840, 1866>>, <<1958, 1968>>, <<2027, 2037>>, <<2042, 2042>>, <<2045, 2045>>,
      <<2070, 2093>>, <<2137, 2139>>, <<2184, 2184>>, <<2192, 2193>>, <<2200, 2207>>,
      <<2249, 2306>>, <<2362, 2362>>, <<2364, 2364>>, <<2369, 2376>>, <<2381, 2381>>,
      <<2385, 2391>>, <<2402, 2403>>, <<2417, 2417>>, <<2433, 2433>>, <<2492, 2492>>,
      <<2497, 2500>>, <<2509, 2509>>, <<2530, 2531>>, <<2558, 2558>>, <<2561, 2562>>,
      <<2620, 2620>>, <<2625, 2626>>, <<2631, 2632>>, <<2635, 2637>>, <<2641, 2641>>,
      <<2672, 2673>>, <<2677, 2677>>, <<2689, 2690>>, <<2748, 2748>>, <<2753, 2757>>,
      <<2759, 2760>>, <<2765, 2765>>, <<2786, 2787>>, <<2810, 2815>>, <<2817, 2817>>,
      <<2876, 2876>>, <<2879, 2879>>, <<2881, 2884>>, <<2893, 2893>>, <<2901, 2902>>,
      <<2914, 2915>>, <<2946, 2946>>, <<3008, 3008>>, <<3021, 3021>>, <<3072, 3072>>,
      <<3076, 3076>>, <<3132, 3132>>, <<3134, 3136>>, <<3142, 3144>>, <<3146, 3149>>,
      <<3157, 3158>>, <<3170, 3171>>, <<3201, 3201>>, <<3260, 3260>>, <<3263, 3263>>,
      <<3270, 3270>>, <<3276, 3277>>, <<3298, 3299>>, <<3328, 3329>>, <<3387, 3388>>,
      <<3393, 3396>>, <<3405, 3405>>, <<3426, 3427>>, <<3457, 3457>>, <<3530, 3530>>,
      <<3538, 3540>>, <<3542, 3542>>, <<3633, 3633>>, <<3636, 3642>>, <<3654, 3662>>,
      <<3761, 3761>>, <<3764, 3772>>, <<3782, 3782>>, <<3784, 3789>>, <<3864, 3865>>,
      <<3893, 3893>>, <<3895, 3895>>, <<3897, 3897>>, <<3953, 3966>>, <<3968, 3972>>,
      <<3974, 3975>>, <<3981, 3991>>, <<3993, 4028>>, <<4038, 4038>>, <<4141, 4144>>,
      <<4146, 4151>>, <<4153, 4154>>, <<4157, 4158>>, <<4184, 4185>>, <<4190, 4192>>,
      <<4209, 4212>>, <<4226, 4226>>, <<4229, 4230>>, <<4237, 4237>>, <<4253, 4253>>,
      <<4348, 4348>>, <<4957, 4959>>, <<5906, 5908>>, <<5938, 5939>>, <<5970, 5971>>,
      <<6002, 6003>>, <<6068, 6069>>, <<6071, 6077>>, <<6086, 6086>>, <<6089, 6099>>,
      <<6103, 6103>>, <<6109, 6109>>, <<6155, 6159>>, <<6211, 6211>>, <<6277, 6278>>,
      <<6313, 6313>>, <<6432, 6434>>, <<6439, 6440>>, <<6450, 6450>>, <<6457, 6459>>,
      <<6679, 6680>>, <<6683, 6683>>, <<6742, 6742>>, <<6744, 6750>>, <<6752, 6752>>,
      <<6754, 6754>>, <<6757, 6764>>, <<6771, 6780>>, <<6783, 6783>>, <<6823, 6823>>,
      <<6832, 6862>>, <<6912, 6915>>, <<6964, 6964>>, <<6966, 6970>>, <<6972, 6972>>,
      <<6978, 6978>>, <<7019, 7027>>, <<7040, 7041>>, <<7074, 7077>>, <<7080, 7081>>,
      <<7083, 7085>>, <<7142, 7142>>, <<7144, 7145>>, <<7149, 7149>>, <<7151, 7153>>,
      <<7212, 7219>>, <<7222, 7223>>, <<7288, 7293>>, <<7376, 7378>>, <<7380, 7392>>,
      <<7394, 7400>>, <<7405, 7405>>, <<7412, 7412>>, <<7416, 7417>>, <<7468, 7530>>,
      <<7544, 7544>>, <<7579, 7679>>, <<8125, 8125>>, <<8127, 8129>>, <<8141, 8143>>,
      <<8157, 8159>>, <<8173, 8175>>, <<8189, 8190>>, <<8203, 8207>>, <<8216, 8217>>,
      <<8228, 8228>>, <<8231, 8231>>, <<8234, 8238>>, <<8288, 8292>>, <<8294, 8303>>,
      <<8305, 8305>>, <<8319, 8319>>, <<8336, 8348>>, <<8400, 8432>>, <<11388, 11389>>,
      <<11503, 11505>>, <<11631, 11631>>, <<11647, 11647>>, <<11744, 11775>>, <<11823, 11823>>,
      <<12293, 12293>>, <<12330, 12333>>, <<12337, 12341>>, <<12347, 12347>>, <<12441, 12446>>,
      <<12540, 12542>>, <<40981, 40981>>, <<42232, 42237>>, <<42508, 42508>>, <<42607, 42610>>,
      <<42612, 42621>>, <<42623, 42623>>, <<42652, 42655>>, <<42736, 42737>>, <<42752, 42785>>,
      <<42864, 42864>>, <<42888, 42890>>, <<42994, 42996>>, <<43000, 43001>>, <<43010, 43010>>,
      <<43014, 43014>>, <<43019, 43019>>, <<43045, 43046>>, <<43052, 43052>>, <<43204, 43205>>,
      <<43232, 43249>>, <<43263, 43263>>, <<43302, 43309>>, <<43335, 43345>>, <<43392, 43394>>,
      <<43443, 43443>>, <<43446, 43449>>, <<43452, 43453>>, <<43471, 43471>>, <<43493, 43494>>,
      <<43561, 43566>>, <<43569, 43570>>, <<43573, 43574>>, <<43587, 43587>>, <<43596, 43596>>,
      <<43632, 43632>>, <<43644, 43644>>, <<43696, 43696>>, <<43698, 43700>>, <<43703, 43704>>,
      <<43710, 43711>>, <<43713, 43713>>, <<43741, 43741>>, <<43756, 43757>>, <<43763, 43764>>,
      <<43766, 43766>>, <<43867, 43871>>, <<43881, 43883>>, <<44005, 44005>>, <<44008, 44008>>,
      <<44013, 44013>>, <<64286, 64286>>, <<64434, 64450>>, <<65024, 65039>>, <<65043, 65043>>,
      <<65056, 65071>>, <<65106, 65106>>, <<65109, 65109>>, <<65279, 65279>>, <<65287, 65287>>,
      <<65294, 65294>>, <<65306, 65306>>, <<65342, 65342>>, <<65344, 65344>>, <<65392, 65392>>,
      <<65438, 65439>>, <<65507, 65507>>, <<65529, 65531>>, <<66045, 66045>>, <<66272, 66272>>,
      <<66422, 66426>>, <<67456, 67461>>, <<67463, 67504>>, <<67506, 67514>>, <<68097, 68099>>,
      <<68101, 68102>>, <<68108, 68111>>, <<68152, 68154>>, <<68159, 68159>>, <<68325, 68326>>,
      <<68900, 68903>>, <<69291, 69292>>, <<69446, 69456>>, <<69506, 69509>>, <<69633, 69633>>,
      <<69688, 69702>>, <<69744, 69744>>, <<69747, 69748>>, <<69759, 69761>>, <<69811, 69814>>,
      <<69817, 69818>>, <<69821, 69821>>, <<69826, 69826>>, <<69837, 69837>>, <<69888, 69890>>,
      <<69927, 69931>>, <<69933, 69940>>, <<70003, 70003>>, <<70016, 70017>>, <<70070, 70078>>,
      <<70089, 70092>>, <<70095, 70095>>, <<70191, 70193>>, <<70196, 70196>>, <<70198, 70199>>,
      <<70206, 70206>>, <<70367, 70367>>, <<70371, 70378>>, <<70400, 70401>>, <<70459, 70460>>,
      <<70464, 70464>>, <<70502, 70508>>, <<70512, 70516>>, <<70712, 70719>>, <<70722, 70724>>,
      <<70726, 70726>>, <<70750, 70750>>, <<70835, 70840>>, <<70842, 70842>>, <<70847, 70848>>,
      <<70850, 70851>>, <<71090, 71093>>, <<71100, 71101>>, <<71103, 71104>>, <<71132, 71133>>,
      <<71219, 71226>>, <<71229, 71229>>, <<71231, 71232>>, <<71339, 71339>>, <<71341, 71341>>,
      <<71344, 71349>>, <<71351, 71351>>, <<71453, 71455>>, <<71458, 71461>>, <<71463, 71467>>,
      <<71727, 71735>>, <<71737, 71738>>, <<71995, 71996>>, <<71998, 71998>>, <<72003, 72003>>,
      <<72148, 72151>>, <<72154, 72155>>, <<72160, 72160>>, <<72193, 72202>>, <<72243, 72248>>,
      <<72251, 72254>>, <<72263, 72263>>, <<72273, 72278>>, <<72281, 72283>>, <<72330, 72342>>,
      <<72344, 72345>>, <<72752, 72758>>, <<72760, 72765>>, <<72767, 72767>>, <<72850, 72871>>,
      <<72874, 72880>>, <<72882, 72883>>, <<72885, 72886>>, <<73009, 73014>>, <<73018, 73018>>,
      <<73020, 73021>>, <<73023, 73029>>, <<73031, 73031>>, <<73104, 73105>>, <<73109, 73109>>,
      <<73111, 73111>>, <<73459, 73460>>, <<78896, 78904>>, <<92912, 92916>>, <<92976, 92982>>,
      <<92992, 92995>>, <<94031, 94031>>, <<94095, 94111>>, <<94176, 94177>>, <<94179, 94180>>,
      <<110576, 110579>>, <<110581, 110587>>, <<110589, 110590>>, <<113821, 113822>>, <<113824, 113827>>,
      <<118528, 118573>>, <<118576, 118598>>, <<119143, 119145>>, <<119155, 119170>>, <<119173, 119179>>,
      <<119210, 119213>>, <<119362, 119364>>, <<121344, 121398>>, <<121403, 121452>>, <<121461, 121461>>,
      <<121476, 121476>>, <<121499, 121503>>, <<121505, 121519>>, <<122880, 122886>>, <<122888, 122904>>,
      <<122907, 122913>>, <<122915, 122916>>, <<122918, 122922>>, <<123184, 123197>>, <<123566, 123566>>,
      <<123628, 123631>>, <<125136, 125142>>, <<125252, 125259>>, <<127995, 127999>>, <<917505, 917505>>,
      <<917536, 917631>>, <<917760, 917999>> }

InRun(c, r) == r[1] <= c /\ c <= r[2] /\ (c - r[1]) % r[3] = 0

\* the mapping as a function of the code points it changes
LowerMap ==
    [c \in UNION { { r[1] + k * r[3] : k \in 0..((r[2] - r[1]) \div r[3]) } :
                      r \in LowerRuns } |->
        c + (CHOOSE r \in LowerRuns : InRun(c, r))[4]]

to_lower(c) == IF c \in DOMAIN LowerMap THEN LowerMap[c] ELSE c

to_lower_full(c) == IF c = 304 THEN << 105, 775 >> ELSE << to_lower(c) >>

is_case_ignorable(c) == \E r \in CaseIgnorableRanges : r[1] <= c /\ c <= r[2]

is_cased(c) == \E r \in CasedRanges : r[1] <= c /\ c <= r[2]

final_sigma(s, i) ==
    LET before == { j \in 1..(i - 1) : ~is_case_ignorable(s[j]) }
        after == { j \in (i + 1)..Len(s) : ~is_case_ignorable(s[j]) }
    IN  /\ before # {}
        /\ is_cased(s[CHOOSE j \in before : \A k \in before : k <= j])
        /\ \/ after = {}
           \/ ~is_cased(s[CHOOSE j \in after : \A k \in after : j <= k])

\* what the character at position i of s becomes
lower_char(s, i) ==
    IF s[i] = 931
    THEN << IF final_sigma(s, i) THEN 962 ELSE 963 >>
    ELSE to_lower_full(s[i])

RECURSIVE lower_from(_, _)
lower_from(s, i) ==
    IF i > Len(s) THEN <<>> ELSE lower_char(s, i) \o lower_from(s, i + 1)

lower(s) == lower_from(s, 1)

\* replace of one character by one character
replace(s, old, new) == [i \in 1..Len(s) |-> IF s[i] = old THEN new ELSE s[i]]

(***************************************************************************)
(* load_rows, coerce_row.  The file is given by its format and by what     *)
(* json.loads makes of its documents: << "array", docs >> for a text that  *)
(* starts with "[", where docs are the elements of the array, and          *)
(* << "jsonl", docs >> otherwise, where docs are the non-blank lines; a    *)
(* document is a JSON value, or Unparsable.  An array with an Unparsable   *)
(* element is a text json.loads refuses as a whole; the lines of a JSONL   *)
(* text are parsed and coerced one after the other.  An empty text is      *)
(* << "jsonl", <<>> >>.  A text that starts with "[" and parses is a list, *)
(* so the "JSON input must be an array of objects." error has no input.    *)
(***************************************************************************)
NoError == <<>>

Unparsable == << "unparsable" >>

MSG_ROW == "Each input row must be a JSON object."

MSG_JSON == "JSONDecodeError"

coerce_row(value) ==
    IF ~IsDict(value)
    THEN [ err |-> << "ValueError", MSG_ROW >>, row |-> EmptyMap ]
    ELSE [ err |-> NoError, row |-> value[2] ]

\* json.loads of one document
json_loads(doc) ==
    IF doc = Unparsable
    THEN [ err |-> << "JSONDecodeError", MSG_JSON >>, value |-> None ]
    ELSE [ err |-> NoError, value |-> doc ]

\* [coerce_row(row) for row in parsed], from element i on
RECURSIVE coerce_rows_from(_, _, _)
coerce_rows_from(parsed, i, loaded_rows) ==
    IF i > Len(parsed) THEN [ err |-> NoError, rows |-> loaded_rows ]
    ELSE IF coerce_row(parsed[i]).err # NoError
    THEN [ err |-> coerce_row(parsed[i]).err, rows |-> <<>> ]
    ELSE coerce_rows_from(parsed, i + 1, Append(loaded_rows, coerce_row(parsed[i]).row))

\* [coerce_row(json.loads(line)) for line in ...], from line i on: a line
\* is parsed and coerced before the next line is looked at
RECURSIVE load_lines_from(_, _, _)
load_lines_from(lines, i, loaded_rows) ==
    IF i > Len(lines) THEN [ err |-> NoError, rows |-> loaded_rows ]
    ELSE IF json_loads(lines[i]).err # NoError
    THEN [ err |-> json_loads(lines[i]).err, rows |-> <<>> ]
    ELSE IF coerce_row(json_loads(lines[i]).value).err # NoError
    THEN [ err |-> coerce_row(json_loads(lines[i]).value).err, rows |-> <<>> ]
    ELSE load_lines_from(lines, i + 1,
             Append(loaded_rows, coerce_row(json_loads(lines[i]).value).row))

load_rows(file) ==
    IF file[1] = "array"
    THEN IF \E i \in 1..Len(file[2]) : file[2][i] = Unparsable
         THEN [ err |-> << "JSONDecodeError", MSG_JSON >>, rows |-> <<>> ]
         ELSE coerce_rows_from(file[2], 1, <<>>)
    ELSE load_lines_from(file[2], 1, <<>>)

(***************************************************************************)
(* has_value                                                               *)
(***************************************************************************)
\* has_value with `if not value: return False`: 0 and False are refused
has_value_truthy(row, key) ==
    LET value == Get(row, key)
    IN  IF value = None THEN FALSE
        ELSE IF IsStr(value) THEN strip(value[2]) # <<>>
        ELSE IF IsList(value) THEN Len(value[2]) > 0
        ELSE IF value[1] = "num" THEN value[2] # 0
        ELSE IF value[1] = "bool" THEN value[2]
        ELSE TRUE

has_value(row, key) ==
    LET value == Get(row, key)
    IN  IF value = None THEN FALSE
        ELSE IF IsStr(value) THEN strip(value[2]) # <<>>
        ELSE IF IsList(value) THEN Len(value[2]) > 0
        ELSE TRUE

(***************************************************************************)
(* normalize_json_value: rows come from json.loads and scores from the     *)
(* result frame, so every value is a dict, a list or a primitive; the copy *)
(* is rebuilt level by level.                                              *)
(***************************************************************************)
RECURSIVE normalize_json_value(_)
normalize_json_value(value) ==
    IF IsDict(value)
    THEN Dict([k \in DOMAIN value[2] |-> normalize_json_value(value[2][k])])
    ELSE IF IsList(value)
    THEN List([i \in 1..Len(value[2]) |-> normalize_json_value(value[2][i])])
    ELSE value

normalize_row(row) == [k \in DOMAIN row |-> normalize_json_value(row[k])]

(***************************************************************************)
(* get_group_key, group_rows                                               *)
(***************************************************************************)
s_all == text(<< "a", "l", "l" >>)

s_uncategorized ==
    text(<< "u", "n", "c", "a", "t", "e", "g", "o", "r", "i", "z", "e", "d" >>)

get_group_key(row, by) ==
    IF by = "none" THEN s_all
    ELSE
      LET category == Get(row, "category")
          metadata == Get(row, "metadata")
          nested_category ==
              IF IsDict(metadata) THEN Get(metadata[2], "category") ELSE None
      IN  IF IsStr(category) /\ strip(category[2]) # <<>>
          THEN strip(category[2])
          ELSE IF IsDict(metadata) /\ IsStr(nested_category)
                  /\ strip(nested_category[2]) # <<>>
          THEN strip(nested_category[2])
          ELSE s_uncategorized

\* grouped[key] = [row]: a later row of a group replaces the earlier ones
setdefault_append_overwrites(g, key, row) ==
    IF \E i \in 1..Len(g) : g[i].key = key
    THEN [i \in 1..Len(g) |->
             IF g[i].key = key THEN [key |-> key, rows |-> << row >>] ELSE g[i]]
    ELSE Append(g, [key |-> key, rows |-> << row >>])

\* grouped.setdefault(key, []).append(row) on a dict kept in insertion order
setdefault_append(g, key, row) ==
    IF \E i \in 1..Len(g) : g[i].key = key
    THEN [i \in 1..Len(g) |->
             IF g[i].key = key
             THEN [key |-> key, rows |-> Append(g[i].rows, row)]
             ELSE g[i]]
    ELSE Append(g, [key |-> key, rows |-> << row >>])

RECURSIVE group_rows_from(_, _, _)
group_rows_from(g, rs, by) ==
    IF rs = <<>> THEN g
    ELSE group_rows_from(setdefault_append(g, get_group_key(Head(rs), by), Head(rs)),
                         Tail(rs), by)

group_rows(rs, by) == group_rows_from(<<>>, rs, by)

(***************************************************************************)
(* normalize_group_name, get_default_metric_preferences                    *)
(***************************************************************************)
s_qa == text(<< "q", "a" >>)

s_work == text(<< "w", "o", "r", "k" >>)

s_work_search == text(<< "w", "o", "r", "k", "-", "s", "e", "a", "r", "c", "h" >>)

c_underscore == ord("_")

c_hyphen == ord("-")

normalize_group_name(group_name) ==
    replace(lower(strip(group_name)), c_underscore, c_hyphen)

\* the lookup on the group name as it is, not normalized
get_default_metric_preferences_raw(group_name) ==
    IF group_name = s_qa
    THEN << "semantic_similarity", "factual_correctness" >>
    ELSE IF group_name \in {s_work_search, s_work}
    THEN << "semantic_similarity" >>
    ELSE <<>>

\* <<>> is None
get_default_metric_preferences(group_name) ==
    LET normalized == normalize_group_name(group_name)
    IN  IF normalized = s_qa
        THEN << "semantic_similarity", "factual_correctness" >>
        ELSE IF normalized \in {s_work_search, s_work}
        THEN << "semantic_similarity" >>
        ELSE <<>>

(***************************************************************************)
(* resolve_region, build_evaluator_models                                  *)
(***************************************************************************)
MSG_REGION == "Missing AWS region. Pass --region or set AWS_DEFAULT_REGION."

MSG_EVALUATOR == "evaluator models cannot be constructed"

environ_get(env, name) == IF name \in DOMAIN env THEN env[name] ELSE ""

environ_setdefault(env, name, value) ==
    IF name \in DOMAIN env THEN env ELSE Put(env, name, value)

resolve_region(explicit, env) ==
    LET found ==
            IF explicit # "" THEN explicit
            ELSE IF environ_get(env, "RAGAS_AWS_REGION") # ""
            THEN environ_get(env, "RAGAS_AWS_REGION")
            ELSE IF environ_get(env, "AWS_REGION") # ""
            THEN environ_get(env, "AWS_REGION")
            ELSE environ_get(env, "AWS_DEFAULT_REGION")
    IN  IF found = ""
        THEN [ err |-> << "ValueError", MSG_REGION >>, region |-> "", environ |-> env ]
        ELSE [ err |-> NoError,
               region |-> found,
               environ |->
                   environ_setdefault(
                       environ_setdefault(
                           environ_setdefault(env, "AWS_REGION", found),
                           "AWS_DEFAULT_REGION", found),
                       "AWS_REGION_NAME", found) ]

\* the litellm factories are tried first; if they raise, the langchain-aws
\* wrappers are constructed, and what they raise leaves the function
build_evaluator_models(backends) ==
    IF "litellm" \in backends
    THEN [ err |-> NoError, provider |-> "litellm" ]
    ELSE IF "langchain-aws" \in backends
    THEN [ err |-> NoError, provider |-> "langchain-aws" ]
    ELSE [ err |-> << "Exception", MSG_EVALUATOR >>, provider |-> "" ]

(***************************************************************************)
(* pick_metric_names                                                       *)
(***************************************************************************)
\* the keys of requirements, in declaration order
MetricOrder == << "response_relevancy", "faithfulness", "context_recall",
                  "factual_correctness", "semantic_similarity" >>

requirements ==
    [ response_relevancy  |-> << "user_input", "response" >>,
      faithfulness        |-> << "user_input", "response", "retrieved_contexts" >>,
      context_recall      |-> << "user_input", "reference", "retrieved_contexts" >>,
      factual_correctness |-> << "user_input", "response", "reference" >>,
      semantic_similarity |-> << "response", "reference" >> ]

InSeq(x, s) == \E i \in 1..Len(s) : s[i] = x

available_of(rs) ==
    LET ok(metric_name) ==
            \A r \in 1..Len(rs) :
                \A k \in 1..Len(requirements[metric_name]) :
                    has_value(rs[r], requirements[metric_name][k])
    IN  SelectSeq(MetricOrder, ok)

\* sorted() over the metric names that occur: alphabetical rank
AlphaOrder == << "answer_relevancy", "bogus_metric", "context_recall",
                 "factual_correctness", "faithfulness", "response_relevancy",
                 "semantic_similarity" >>

AlphaRank(name) == CHOOSE i \in 1..Len(AlphaOrder) : AlphaOrder[i] = name

RECURSIVE insert_sorted(_, _)
insert_sorted(s, x) ==
    IF s = <<>> THEN << x >>
    ELSE IF AlphaRank(x) < AlphaRank(Head(s)) THEN << x >> \o s
    ELSE << Head(s) >> \o insert_sorted(Tail(s), x)

RECURSIVE sorted(_)
sorted(s) ==
    IF s = <<>> THEN <<>>
    ELSE insert_sorted(sorted(SubSeq(s, 1, Len(s) - 1)), s[Len(s)])

MSG_UNSUPPORTED == "Unsupported metrics"

MSG_MISSING == "Requested metrics are missing required fields in at least one row"

unsupported_of(requested) ==
    LET bad(metric) == metric \notin DOMAIN requirements
    IN  SelectSeq(requested, bad)

missing_inputs_of(requested, available) ==
    LET lacks(metric_name) == ~InSeq(metric_name, available)
    IN  SelectSeq(requested, lacks)

preferred_selected(group_name, available) ==
    LET here(metric_name) == InSeq(metric_name, available)
    IN  SelectSeq(get_default_metric_preferences(group_name), here)

\* pick_metric_names with the two checks of an explicit request exchanged
pick_metric_names_missing_first(rs, requested, group_name) ==
    LET available == available_of(rs)
        unsupported == unsupported_of(requested)
        missing_inputs == missing_inputs_of(requested, available)
        selected == preferred_selected(group_name, available)
    IN  IF requested # <<>>
        THEN IF missing_inputs # <<>>
             THEN [ err |-> << "ValueError", MSG_MISSING, missing_inputs >>,
                    selected |-> <<>>, available |-> <<>> ]
             ELSE IF unsupported # <<>>
             THEN [ err |-> << "ValueError", MSG_UNSUPPORTED, sorted(unsupported),
                               sorted(MetricOrder) >>,
                    selected |-> <<>>, available |-> <<>> ]
             ELSE [ err |-> NoError, selected |-> requested, available |-> available ]
        ELSE IF get_default_metric_preferences(group_name) # <<>> /\ selected # <<>>
        THEN [ err |-> NoError, selected |-> selected, available |-> available ]
        ELSE [ err |-> NoError, selected |-> available, available |-> available ]

\* pick_metric_names dropping the unsupported names of a request
pick_metric_names_skips_unsupported(rs, requested, group_name) ==
    LET available == available_of(rs)
        known(metric) == metric \in DOMAIN requirements
        supported == SelectSeq(requested, known)
        missing_inputs == missing_inputs_of(supported, available)
        selected == preferred_selected(group_name, available)
    IN  IF requested # <<>>
        THEN IF missing_inputs # <<>>
             THEN [ err |-> << "ValueError", MSG_MISSING, missing_inputs >>,
                    selected |-> <<>>, available |-> <<>> ]
             ELSE [ err |-> NoError, selected |-> supported, available |-> available ]
        ELSE IF get_default_metric_preferences(group_name) # <<>> /\ selected # <<>>
        THEN [ err |-> NoError, selected |-> selected, available |-> available ]
        ELSE [ err |-> NoError, selected |-> available, available |-> available ]

\* the result: err is the ValueError raised (NoError if none), else
\* (selected, available) is the returned pair.  The text of the unsupported
\* error is kept as its parts: the sorted offending names and the sorted
\* supported names
pick_metric_names(rs, requested, group_name) ==
    LET available == available_of(rs)
        unsupported == unsupported_of(requested)
        missing_inputs == missing_inputs_of(requested, available)
        selected == preferred_selected(group_name, available)
    IN  IF requested # <<>>
        THEN IF unsupported # <<>>
             THEN [ err |-> << "ValueError", MSG_UNSUPPORTED, sorted(unsupported),
                               sorted(MetricOrder) >>,
                    selected |-> <<>>, available |-> <<>> ]
             ELSE IF missing_inputs # <<>>
             THEN [ err |-> << "ValueError", MSG_MISSING, missing_inputs >>,
                    selected |-> <<>>, available |-> <<>> ]
             ELSE [ err |-> NoError, selected |-> requested, available |-> available ]
        ELSE IF get_default_metric_preferences(group_name) # <<>> /\ selected # <<>>
        THEN [ err |-> NoError, selected |-> selected, available |-> available ]
        ELSE [ err |-> NoError, selected |-> available, available |-> available ]

(***************************************************************************)
(* import_metrics, build_metrics.  A metric class of the library is a      *)
(* record of its class name and of the name attribute its objects carry,   *)
(* if they carry one; a metric object is its class with the keyword        *)
(* arguments it was constructed with.                                      *)
(***************************************************************************)
MSG_CONFIGURATION == "Unsupported metric configuration"

metric_kwargs(metric_name) ==
    IF metric_name = "response_relevancy" THEN { "llm", "embeddings" }
    ELSE IF metric_name = "semantic_similarity" THEN { "embeddings" }
    ELSE IF metric_name \in { "faithfulness", "context_recall", "factual_correctness" }
    THEN { "llm" }
    ELSE {}

MSG_CONSTRUCTOR == "the metric class cannot be constructed"

\* the loop of build_metrics from entry i on: the first entry whose class
\* is not registered, which no branch constructs, or whose constructor
\* raises ends it
RECURSIVE build_metrics_from(_, _, _, _)
build_metrics_from(names, classes, i, built) ==
    IF i > Len(names) THEN [ err |-> NoError, metrics |-> built ]
    ELSE IF names[i] \notin DOMAIN classes
    THEN [ err |-> << "KeyError", names[i] >>, metrics |-> <<>> ]
    ELSE IF metric_kwargs(names[i]) = {}
    THEN [ err |-> << "ValueError", MSG_CONFIGURATION, names[i] >>, metrics |-> <<>> ]
    ELSE IF ~classes[names[i]].constructs
    THEN [ err |-> << "Exception", MSG_CONSTRUCTOR, classes[names[i]].class_name >>,
           metrics |-> <<>> ]
    ELSE build_metrics_from(names, classes, i + 1,
             Append(built,
                 [ class_name |-> classes[names[i]].class_name,
                   has_name |-> classes[names[i]].has_name,
                   name |-> classes[names[i]].name,
                   kwargs |-> metric_kwargs(names[i]) ]))

build_metrics(names, classes) == build_metrics_from(names, classes, 1, <<>>)

\* str(getattr(metric, "name", metric.__class__.__name__))
metric_name_of(metric) ==
    IF metric.has_name THEN metric.name ELSE metric.class_name

(***************************************************************************)
(* score_metric: `scores` is the metric's column of the evaluation result, *)
(* one entry per record of the result frame.                               *)
(***************************************************************************)
RECURSIVE gcd(_, _)
gcd(a, b) == IF b = 0 THEN a ELSE gcd(b, a % b)

Frac(p, q) == LET g == gcd(p, q) IN Num(p \div g, q \div g)

\* float(value) for an int, a float or a bool
to_float(v) == IF v[1] = "bool" THEN Num(IF v[2] THEN 1 ELSE 0, 1) ELSE v

RECURSIVE fsum(_)
fsum(values) ==
    IF values = <<>> THEN Num(0, 1)
    ELSE LET rest == fsum(Tail(values))
             v == Head(values)
         IN  Frac(v[2] * rest[3] + rest[2] * v[3], v[3] * rest[3])

\* a NaN among the values makes the mean NaN
fmean(values) ==
    IF \E i \in 1..Len(values) : values[i] = NaN THEN NaN
    ELSE LET total == fsum(values) IN Frac(total[2], total[3] * Len(values))

score_metric(rs, metric, scores) ==
    LET metric_name == metric_name_of(metric)
        result_rows == [i \in 1..Len(scores) |->
                           normalize_row(Put(IF i <= Len(rs) THEN rs[i] ELSE EmptyMap,
                                             metric_name, scores[i]))]
        numeric(row) == IsNumber(Get(row, metric_name))
        numeric_rows == SelectSeq(result_rows, numeric)
        values == [i \in 1..Len(numeric_rows) |->
                      to_float(numeric_rows[i][metric_name])]
    IN  [ rows |-> result_rows,
          average |-> IF values # <<>> THEN fmean(values) ELSE None ]

(***************************************************************************)
(* score_rows, one iteration of its loop                                   *)
(***************************************************************************)
MSG_INDEX == "list index out of range"

\* the except branch without the loop over the rows
rows_after_failure_untouched(srows, metric_name) == srows

\* the except branch
rows_after_failure(srows, metric_name) ==
    [i \in 1..Len(srows) |-> Put(srows[i], metric_name, None)]

failures_after_failure(fs, metric_name, message) == Put(fs, metric_name, message)

\* the merge of the metric's column; scored_rows[index] of a record beyond
\* the last row raises
rows_after_success(srows, metric_rows, metric_name) ==
    IF Len(metric_rows) > Len(srows)
    THEN [ err |-> << "IndexError", MSG_INDEX >>, rows |-> <<>> ]
    ELSE [ err |-> NoError,
           rows |-> [i \in 1..Len(srows) |->
               IF i <= Len(metric_rows)
               THEN Put(srows[i], metric_name, Get(metric_rows[i], metric_name))
               ELSE srows[i]] ]

\* the mean stored without the `is not None` test
summary_after_success_always(sm, metric_name, average) == Put(sm, metric_name, average)

summary_after_success(sm, metric_name, average) ==
    IF average # None THEN Put(sm, metric_name, average) ELSE sm

\* score_metric called with the rows annotated so far
rows_to_score_annotated(group_rows_list, srows) == srows

\* the rows score_metric is called with
rows_to_score(group_rows_list, srows) == group_rows_list

(***************************************************************************)
(* main: the group reports                                                 *)
(***************************************************************************)
ADVISORY == "No compatible metrics could be selected from this group. Expected fields such as user_input, response, reference, and retrieved_contexts."

\* row.setdefault("evaluation_group", group_name)
tag_rows_keeps_tag(rs, group_name) ==
    [i \in 1..Len(rs) |->
        IF "evaluation_group" \in DOMAIN rs[i]
        THEN rs[i]
        ELSE Put(rs[i], "evaluation_group", Str(group_name))]

tag_rows(rs, group_name) ==
    [i \in 1..Len(rs) |-> Put(rs[i], "evaluation_group", Str(group_name))]

\* the report of a group without metrics, its rows left out
advisory_group_output_without_rows(group_name, group_rows_list, available) ==
    [ key |-> group_name,
      row_count |-> Len(group_rows_list),
      selected_metrics |-> <<>>,
      auto_available_metrics |-> available,
      summary |-> EmptyMap,
      metric_failures |-> [k \in {"_group"} |-> ADVISORY],
      rows |-> <<>> ]

advisory_group_output(group_name, group_rows_list, available) ==
    [ key |-> group_name,
      row_count |-> Len(group_rows_list),
      selected_metrics |-> <<>>,
      auto_available_metrics |-> available,
      summary |-> EmptyMap,
      metric_failures |-> [k \in {"_group"} |-> ADVISORY],
      rows |-> tag_rows([i \in 1..Len(group_rows_list) |->
                            normalize_row(group_rows_list[i])], group_name) ]

scored_group_output(group_name, group_rows_list, selected, available, srows, sm, fs) ==
    [ key |-> group_name,
      row_count |-> Len(group_rows_list),
      selected_metrics |-> selected,
      auto_available_metrics |-> available,
      summary |-> sm,
      metric_failures |-> fs,
      rows |-> tag_rows(srows, group_name) ]

build_report ==
    [ row_count |-> Len(rows),
      provider |-> provider,
      region |-> region,
      llm_model |-> llm_model,
      embedding_model |-> embedding_model,
      group_by |-> group_by,
      group_count |-> Len(grouped),
      summary_by_group |-> summary_by_group,
      metric_failures_by_group |-> failures_by_group,
      groups |-> groups_output,
      rows |-> flattened_rows ]

(***************************************************************************)
(* Inputs                                                                  *)
(***************************************************************************)
C(ch) == Str(text(<< ch >>))

\* where a row says which group it belongs to: "qa" with the carriage
\* return of a CRLF line end
cat_qa ==
    [category |-> Str(s_qa \o << 13 >>),
     evaluation_group |-> Str(text(<< "o", "l", "d" >>))]

\* a blank category, and in metadata "WorK_Search" written with the Kelvin
\* sign U+212A, between a no-break space and a form feed
cat_work_search ==
    [category |-> Str(<< 32, 13 >>),
     metadata |-> Dict([category |->
         Str(<< 160 >> \o text(<< "W", "o", "r" >>) \o << 8490 >>
             \o text(<< "_", "S", "e", "a", "r", "c", "h" >>) \o << 12 >>)])]

cat_none == [category |-> Num(0, 1), metadata |-> Str(s_qa)]

\* which of the fields the metrics need a row carries
fields_urf == [user_input |-> C("u"), response |-> C("r"), reference |-> C("f")]

fields_urc ==
    [user_input |-> C("u"), response |-> C("r"),
     retrieved_contexts |-> List(<< C("c") >>)]

fields_rf ==
    [response |-> C("r"), reference |-> C("f"), retrieved_contexts |-> List(<<>>)]

fields_none ==
    [user_input |-> C("u"), response |-> Str(<< 13, 10 >>), reference |-> None]

Merge(a, b) ==
    [k \in (DOMAIN a) \cup (DOMAIN b) |-> IF k \in DOMAIN a THEN a[k] ELSE b[k]]

RowPool ==
    { Merge(cat_qa, fields_urf), Merge(cat_qa, fields_rf),
      Merge(cat_work_search, fields_urf), Merge(cat_work_search, fields_urc),
      Merge(cat_none, fields_none) }

SeqsUpTo(S, n) == UNION { [1..k -> S] : k \in 0..n }

\* the files load_rows refuses: an array that does not parse, whatever its
\* elements; an array holding a number; lines of which one does not parse
\* or is a number, whichever comes first
BadFiles ==
    { << "array", << Dict(Merge(cat_qa, fields_urf)), Unparsable >> >>,
      << "array", << Unparsable, Num(3, 1) >> >>,
      << "array", << Dict(Merge(cat_qa, fields_urf)), Num(3, 1) >> >>,
      << "jsonl", << Dict(Merge(cat_qa, fields_urf)), Unparsable >> >>,
      << "jsonl", << Unparsable, Num(3, 1) >> >>,
      << "jsonl", << Num(3, 1), Unparsable >> >>,
      << "jsonl", << Dict(Merge(cat_qa, fields_urf)), Num(3, 1), Unparsable >> >> }

\* the empty array and an array of one row
ArrayFiles ==
    { << "array", <<>> >>,
      << "array", << Dict(Merge(cat_work_search, fields_urf)) >> >> }

\* JSONL files of up to n rows of RowSet (the empty text among them), and
\* the files above
Files(RowSet, n) ==
    { << "jsonl", s >> : s \in SeqsUpTo({ Dict(r) : r \in RowSet }, n) }
        \cup ArrayFiles \cup BadFiles

\* parse_metric_list returns None (here <<>>) or a non-empty list of names
RequestedPool ==
    { <<>>,
      << "factual_correctness", "semantic_similarity" >>,
      << "semantic_similarity", "semantic_similarity" >>,
      << "faithfulness", "bogus_metric", "answer_relevancy" >> }

\* the metric classes import_metrics may find: objects named by the key the
\* class is registered under; objects named otherwise; objects without a
\* name attribute; classes whose constructor raises
classes_named_by_key ==
    [ response_relevancy |->
          [class_name |-> "ResponseRelevancy", has_name |-> TRUE,
           name |-> "response_relevancy", constructs |-> TRUE],
      faithfulness |->
          [class_name |-> "Faithfulness", has_name |-> TRUE, name |-> "faithfulness",
           constructs |-> TRUE],
      context_recall |->
          [class_name |-> "LLMContextRecall", has_name |-> TRUE,
           name |-> "context_recall", constructs |-> TRUE],
      factual_correctness |->
          [class_name |-> "FactualCorrectness", has_name |-> TRUE,
           name |-> "factual_correctness", constructs |-> TRUE],
      semantic_similarity |->
          [class_name |-> "SemanticSimilarity", has_name |-> TRUE,
           name |-> "semantic_similarity", constructs |-> TRUE] ]

classes_named_otherwise ==
    [ classes_named_by_key EXCEPT
          !.response_relevancy.name = "answer_relevancy",
          !.factual_correctness.name = "factual_correctness(mode=f1)" ]

classes_unnamed ==
    [ k \in DOMAIN classes_named_by_key |->
          [ classes_named_by_key[k] EXCEPT !.has_name = FALSE, !.name = "" ] ]

classes_unconstructible ==
    [ k \in DOMAIN classes_named_by_key |->
          [ classes_named_by_key[k] EXCEPT !.constructs = FALSE ] ]

\* the command line, the environment and the libraries of a run
setup_explicit ==
    [ group_by |-> "category",
      llm_model |-> "llm",
      embedding_model |-> "emb",
      explicit_region |-> "us-east-1",
      environ |-> [k \in {} |-> ""],
      installed |-> { "litellm", "langchain-aws" },
      metric_classes |-> classes_named_by_key,
      output_writable |-> TRUE ]

setup_environ ==
    [ setup_explicit EXCEPT
          !.explicit_region = "",
          !.environ = [AWS_REGION |-> "", AWS_DEFAULT_REGION |-> "eu-west-1"],
          !.installed = { "langchain-aws" },
          !.metric_classes = classes_named_otherwise ]

setup_unnamed == [ setup_explicit EXCEPT !.metric_classes = classes_unnamed ]

setup_unwritable == [ setup_explicit EXCEPT !.output_writable = FALSE ]

\* the runs that end before the loop, or at the first group with a
\* selected metric, for what the setup lacks
FailingSetups ==
    { [ setup_explicit EXCEPT !.llm_model = "" ],
      [ setup_explicit EXCEPT !.embedding_model = "" ],
      [ setup_explicit EXCEPT !.group_by = "group" ],
      [ setup_explicit EXCEPT !.explicit_region = "" ],
      [ setup_explicit EXCEPT !.installed = {} ],
      [ setup_explicit EXCEPT !.metric_classes = classes_unconstructible ] }

BothGroupings(S) == { [ s EXCEPT !.group_by = by ] : s \in S, by \in { "category", "none" } }

Setups == BothGroupings({ setup_explicit }) \cup { setup_environ } \cup FailingSetups

\* what the Metric Scorer may report for a dataset of n rows: no score for
\* any row; the scores 1, 2, ...; the scores 0, none, 2, ...; the scores
\* 0, NaN, 2, ...; and one record more than there are rows
ScoreColumns(n) ==
    { [i \in 1..n |-> None],
      [i \in 1..n |-> Num(i, 1)],
      [i \in 1..n |-> IF i = 2 THEN None ELSE Num(i - 1, 1)],
      [i \in 1..n |-> IF i = 2 THEN NaN ELSE Num(i - 1, 1)],
      [i \in 1..(n + 1) |-> Num(i, 1)] }

ErrorMessages == { "scorer failed" }

(***************************************************************************)
(* The run of main                                                         *)
(***************************************************************************)
InitFrom(FilePool, Requests, SetupPool) ==
    /\ input_file \in FilePool
    /\ requested_metrics \in Requests
    /\ \E s \in SetupPool :
          /\ group_by = s.group_by
          /\ llm_model = s.llm_model
          /\ embedding_model = s.embedding_model
          /\ explicit_region = s.explicit_region
          /\ environ = s.environ
          /\ installed = s.installed
          /\ metric_classes = s.metric_classes
          /\ output_writable = s.output_writable
    /\ pc = "start"
    /\ rows = <<>>
    /\ region = ""
    /\ provider = ""
    /\ grouped = <<>>
    /\ gi = 0
    /\ metric_names = <<>>
    /\ available_metrics = <<>>
    /\ metrics = <<>>
    /\ mi = 0
    /\ scored_rows = <<>>
    /\ summary = EmptyMap
    /\ failures = EmptyMap
    /\ groups_output = <<>>
    /\ flattened_rows = <<>>
    /\ summary_by_group = <<>>
    /\ failures_by_group = <<>>
    /\ report = <<>>
    /\ error = NoError
    /\ calls = <<>>

\* the runs that cannot write their report: one-row inputs, no request
InitUnwritable == InitFrom(Files(RowPool, 1), { <<>> }, { setup_unwritable })

Init == InitFrom(Files(RowPool, MaxRows), RequestedPool, Setups) \/ InitUnwritable

inputs == << input_file, group_by, llm_model, embedding_model, explicit_region,
             installed, metric_classes, output_writable, requested_metrics >>

loaded == << rows, region, provider, environ, grouped, gi >>

group_state == << metric_names, available_metrics, metrics, mi, scored_rows,
                 summary, failures >>

outputs == << groups_output, flattened_rows, summary_by_group, failures_by_group >>

MSG_LLM == "Missing evaluator LLM model. Pass --llm-model or set RAGAS_EVAL_LLM_MODEL."

MSG_EMBEDDING == "Missing evaluator embedding model. Pass --embedding-model or set RAGAS_EVAL_EMBEDDING_MODEL."

MSG_GROUP_BY == "--group-by must be either category or none."

MSG_EMPTY == "Input dataset is empty."

MSG_WRITE == "the report cannot be written"

\* the checks of the arguments, in their order
args_error ==
    IF llm_model = "" THEN << "ValueError", MSG_LLM >>
    ELSE IF embedding_model = "" THEN << "ValueError", MSG_EMBEDDING >>
    ELSE IF group_by \notin { "category", "none" } THEN << "ValueError", MSG_GROUP_BY >>
    ELSE NoError

Loaded == load_rows(input_file)

Resolved == resolve_region(explicit_region, environ)

Built == build_evaluator_models(installed)

\* a check of the arguments raises
ArgsRaise ==
    /\ pc = "start"
    /\ args_error # NoError
    /\ pc' = "failed"
    /\ error' = args_error
    /\ UNCHANGED << inputs, loaded, group_state, outputs, report, calls >>

\* load_rows raises
LoadRowsRaises ==
    /\ pc = "start"
    /\ args_error = NoError
    /\ Loaded.err # NoError
    /\ pc' = "failed"
    /\ error' = Loaded.err
    /\ UNCHANGED << inputs, loaded, group_state, outputs, report, calls >>

\* `if not rows: raise ValueError("Input dataset is empty.")`
LoadEmpty ==
    /\ pc = "start"
    /\ args_error = NoError
    /\ Loaded.err = NoError
    /\ Loaded.rows = <<>>
    /\ pc' = "failed"
    /\ error' = << "ValueError", MSG_EMPTY >>
    /\ UNCHANGED << inputs, loaded, group_state, outputs, report, calls >>

\* resolve_region raises
ResolveRegionRaises ==
    /\ pc = "start"
    /\ args_error = NoError
    /\ Loaded.err = NoError
    /\ Loaded.rows # <<>>
    /\ Resolved.err # NoError
    /\ rows' = Loaded.rows
    /\ pc' = "failed"
    /\ error' = Resolved.err
    /\ UNCHANGED << inputs, region, provider, environ, grouped, gi, group_state,
                    outputs, report, calls >>

\* build_evaluator_models raises
BuildEvaluatorModelsRaises ==
    /\ pc = "start"
    /\ args_error = NoError
    /\ Loaded.err = NoError
    /\ Loaded.rows # <<>>
    /\ Resolved.err = NoError
    /\ Built.err # NoError
    /\ rows' = Loaded.rows
    /\ region' = Resolved.region
    /\ environ' = Resolved.environ
    /\ pc' = "failed"
    /\ error' = Built.err
    /\ UNCHANGED << inputs, provider, grouped, gi, group_state, outputs, report,
                    calls >>

\* main up to its loop: the rows, the region, the evaluator models, the
\* groups
Load ==
    /\ pc = "start"
    /\ args_error = NoError
    /\ Loaded.err = NoError
    /\ Loaded.rows # <<>>
    /\ Resolved.err = NoError
    /\ Built.err = NoError
    /\ rows' = Loaded.rows
    /\ region' = Resolved.region
    /\ environ' = Resolved.environ
    /\ provider' = Built.provider
    /\ grouped' = group_rows(Loaded.rows, group_by)
    /\ gi' = 1
    /\ pc' = "pick"
    /\ UNCHANGED << inputs, group_state, outputs, report, error, calls >>

CurrentGroup == grouped[gi]

CurrentPick == pick_metric_names(CurrentGroup.rows, requested_metrics, CurrentGroup.key)

\* pick_metric_names raises: the exception leaves main
PickRaises ==
    /\ pc = "pick"
    /\ gi <= Len(grouped)
    /\ CurrentPick.err # NoError
    /\ pc' = "failed"
    /\ error' = CurrentPick.err
    /\ UNCHANGED << inputs, loaded, group_state, outputs, report, calls >>

\* `if not metric_names:` ... `continue`
PickNothing ==
    /\ pc = "pick"
    /\ gi <= Len(grouped)
    /\ CurrentPick.err = NoError
    /\ CurrentPick.selected = <<>>
    /\ LET out == advisory_group_output(CurrentGroup.key, CurrentGroup.rows,
                                        CurrentPick.available)
       IN  /\ groups_output' = Append(groups_output, out)
           /\ failures_by_group' =
                  Append(failures_by_group,
                         [key |-> CurrentGroup.key, value |-> out.metric_failures])
           /\ flattened_rows' = flattened_rows \o out.rows
    /\ metric_names' = CurrentPick.selected
    /\ available_metrics' = CurrentPick.available
    /\ gi' = gi + 1
    /\ UNCHANGED << inputs, pc, rows, region, provider, environ, grouped, metrics,
                    mi, scored_rows, summary, failures, summary_by_group, report,
                    error, calls >>

CurrentBuild == build_metrics(CurrentPick.selected, metric_classes)

\* metrics are selected and build_metrics raises: the exception leaves main
BuildMetricsRaises ==
    /\ pc = "pick"
    /\ gi <= Len(grouped)
    /\ CurrentPick.err = NoError
    /\ CurrentPick.selected # <<>>
    /\ CurrentBuild.err # NoError
    /\ metric_names' = CurrentPick.selected
    /\ available_metrics' = CurrentPick.available
    /\ pc' = "failed"
    /\ error' = CurrentBuild.err
    /\ UNCHANGED << inputs, loaded, metrics, mi, scored_rows, summary, failures,
                    outputs, report, calls >>

\* metrics are selected: build_metrics, and score_rows up to its loop
PickSome ==
    /\ pc = "pick"
    /\ gi <= Len(grouped)
    /\ CurrentPick.err = NoError
    /\ CurrentPick.selected # <<>>
    /\ CurrentBuild.err = NoError
    /\ metric_names' = CurrentPick.selected
    /\ available_metrics' = CurrentPick.available
    /\ metrics' = CurrentBuild.metrics
    /\ scored_rows' = [i \in 1..Len(CurrentGroup.rows) |->
                          normalize_row(CurrentGroup.rows[i])]
    /\ summary' = EmptyMap
    /\ failures' = EmptyMap
    /\ mi' = 1
    /\ pc' = "score"
    /\ UNCHANGED << inputs, loaded, outputs, report, error, calls >>

CurrentMetric == metrics[mi]

CurrentName == metric_name_of(CurrentMetric)

\* score_metric raises for the metric the loop is at
ScoreRaises ==
    /\ pc = "score"
    /\ mi <= Len(metrics)
    /\ \E message \in ErrorMessages :
          /\ failures' = failures_after_failure(failures, CurrentName, message)
          /\ calls' = Append(calls,
                 [ group |-> gi, metric |-> metric_names[mi], name |-> CurrentName,
                   rows |-> rows_to_score(CurrentGroup.rows, scored_rows),
                   raised |-> TRUE, message |-> message, scores |-> <<>> ])
    /\ scored_rows' = rows_after_failure(scored_rows, CurrentName)
    /\ mi' = mi + 1
    /\ UNCHANGED << inputs, loaded, pc, metric_names, available_metrics, metrics,
                    summary, outputs, report, error >>

\* score_metric returns for the metric the loop is at
ScoreReturns ==
    /\ pc = "score"
    /\ mi <= Len(metrics)
    /\ \E scores \in ScoreColumns(Len(CurrentGroup.rows)) :
          LET passed == rows_to_score(CurrentGroup.rows, scored_rows)
              got == score_metric(passed, CurrentMetric, scores)
              merged == rows_after_success(scored_rows, got.rows, CurrentName)
          IN  /\ merged.err = NoError
              /\ scored_rows' = merged.rows
              /\ summary' = summary_after_success(summary, CurrentName, got.average)
              /\ calls' = Append(calls,
                     [ group |-> gi, metric |-> metric_names[mi], name |-> CurrentName,
                       rows |-> passed,
                       raised |-> FALSE, message |-> "", scores |-> scores ])
    /\ mi' = mi + 1
    /\ UNCHANGED << inputs, loaded, pc, metric_names, available_metrics, metrics,
                    failures, outputs, report, error >>

\* score_metric returns more records than the group has rows: the merge
\* raises outside the try, and the exception leaves score_rows and main
ScoreReturnsTooMany ==
    /\ pc = "score"
    /\ mi <= Len(metrics)
    /\ \E scores \in ScoreColumns(Len(CurrentGroup.rows)) :
          LET passed == rows_to_score(CurrentGroup.rows, scored_rows)
              got == score_metric(passed, CurrentMetric, scores)
              merged == rows_after_success(scored_rows, got.rows, CurrentName)
          IN  /\ merged.err # NoError
              /\ error' = merged.err
              /\ calls' = Append(calls,
                     [ group |-> gi, metric |-> metric_names[mi], name |-> CurrentName,
                       rows |-> passed,
                       raised |-> FALSE, message |-> "", scores |-> scores ])
    /\ pc' = "failed"
    /\ UNCHANGED << inputs, loaded, group_state, outputs, report >>

\* score_rows returns; the group's report is stored
FinishGroup ==
    /\ pc = "score"
    /\ mi > Len(metrics)
    /\ LET out == scored_group_output(CurrentGroup.key, CurrentGroup.rows,
                                      metric_names, available_metrics,
                                      scored_rows, summary, failures)
       IN  /\ groups_output' = Append(groups_output, out)
           /\ flattened_rows' = flattened_rows \o out.rows
           /\ summary_by_group' =
                  Append(summary_by_group, [key |-> CurrentGroup.key, value |-> summary])
           /\ failures_by_group' =
                  Append(failures_by_group, [key |-> CurrentGroup.key, value |-> failures])
    /\ gi' = gi + 1
    /\ pc' = "pick"
    /\ UNCHANGED << inputs, rows, region, provider, environ, grouped, group_state,
                    report, error, calls >>

\* the loop over the groups is over: the report is written
Emit ==
    /\ pc = "pick"
    /\ gi > Len(grouped)
    /\ output_writable
    /\ report' = << build_report >>
    /\ pc' = "done"
    /\ UNCHANGED << inputs, loaded, group_state, outputs, error, calls >>

\* the directory cannot be made or the file cannot be written: the
\* exception leaves main and there is no report
EmitRaises ==
    /\ pc = "pick"
    /\ gi > Len(grouped)
    /\ ~output_writable
    /\ pc' = "failed"
    /\ error' = << "OSError", MSG_WRITE >>
    /\ UNCHANGED << inputs, loaded, group_state, outputs, report, calls >>

Next ==
    \/ ArgsRaise
    \/ LoadRowsRaises
    \/ LoadEmpty
    \/ ResolveRegionRaises
    \/ BuildEvaluatorModelsRaises
    \/ Load
    \/ PickRaises
    \/ PickNothing
    \/ BuildMetricsRaises
    \/ PickSome
    \/ ScoreRaises
    \/ ScoreReturns
    \/ ScoreReturnsTooMany
    \/ FinishGroup
    \/ Emit
    \/ EmitRaises

Spec == Init /\ [][Next]_vars

(***************************************************************************)
(* The same run on longer inputs, for the order of the rows: fewer kinds   *)
(* of rows, more of them, and metric objects without a name attribute.     *)
(***************************************************************************)
OrderRowPool ==
    { Merge(cat_qa, fields_urf), Merge(cat_qa, fields_rf),
      Merge(cat_work_search, fields_urc), Merge(cat_none, fields_none) }

OrderRequestedPool ==
    { <<>>, << "factual_correctness", "semantic_similarity" >> }

OrderSetups == BothGroupings({ setup_unnamed }) \cup FailingSetups

InitOrder ==
    \/ InitFrom(Files(OrderRowPool, MaxOrderRows), OrderRequestedPool, OrderSetups)
    \/ InitUnwritable

SpecOrder == InitOrder /\ [][Next]_vars

(***************************************************************************)
(* Eligibility analysis on its own: available_of over rows whose fields    *)
(* take every kind of value, run twice on the same rows.  `calls` keeps    *)
(* the result of each run.                                                 *)
(***************************************************************************)
full_row ==
    [user_input |-> C("u"), response |-> C("r"), reference |-> C("f"),
     retrieved_contexts |-> List(<< C("c") >>)]

\* null; the empty string; blank strings of ASCII and of other white space;
\* strings with a character that is not white space; lists; a falsy number
\* and boolean; a dict
FieldValues ==
    { None, Str(<<>>), Str(<< 32, 9 >>), Str(<< 13, 10, 12, 160, 8195 >>),
      Str(<< 32, 120 >>), Str(<< 8203 >>), List(<<>>), List(<< None >>),
      Num(0, 1), << "bool", FALSE >>, Dict(EmptyMap) }

Without(row, key) == [k \in (DOMAIN row) \ {key} |-> row[k]]

EligRows ==
    { full_row }
    \cup { Put(full_row, k, v) : k \in DOMAIN full_row, v \in FieldValues }
    \cup { Without(full_row, k) : k \in DOMAIN full_row }

InitElig ==
    /\ input_file \in { << "jsonl", [i \in 1..Len(s) |-> Dict(s[i])] >> :
                           s \in SeqsUpTo(EligRows, MaxEligRows) \ { <<>> } }
    /\ rows = Loaded.rows
    /\ requested_metrics = <<>>
    /\ group_by = setup_explicit.group_by
    /\ llm_model = setup_explicit.llm_model
    /\ embedding_model = setup_explicit.embedding_model
    /\ explicit_region = setup_explicit.explicit_region
    /\ environ = setup_explicit.environ
    /\ installed = setup_explicit.installed
    /\ metric_classes = setup_explicit.metric_classes
    /\ output_writable = setup_explicit.output_writable
    /\ pc = "elig"
    /\ region = ""
    /\ provider = ""
    /\ grouped = <<>>
    /\ gi = 0
    /\ metric_names = <<>>
    /\ available_metrics = <<>>
    /\ metrics = <<>>
    /\ mi = 0
    /\ scored_rows = <<>>
    /\ summary = EmptyMap
    /\ failures = EmptyMap
    /\ groups_output = <<>>
    /\ flattened_rows = <<>>
    /\ summary_by_group = <<>>
    /\ failures_by_group = <<>>
    /\ report = <<>>
    /\ error = NoError
    /\ calls = <<>>

Analyze ==
    /\ pc \in {"elig", "elig_once"}
    /\ available_metrics' = available_of(rows)
    /\ calls' = Append(calls, available_of(rows))
    /\ pc' = IF pc = "elig" THEN "elig_once" ELSE "elig_twice"
    /\ UNCHANGED << inputs, loaded, metric_names, metrics, mi, scored_rows, summary,
                    failures, outputs, report, error >>

NextElig == Analyze

SpecElig == InitElig /\ [][NextElig]_vars

(***************************************************************************)
(* What the properties are stated with.  Eligibility is restated here from *)
(* the kinds of values, not through has_value.                             *)
(***************************************************************************)
KnownMetrics ==
    { "response_relevancy", "faithfulness", "context_recall",
      "factual_correctness", "semantic_similarity" }

RequiredFields(m) ==
    CASE m = "response_relevancy" -> { "user_input", "response" }
      [] m = "faithfulness" -> { "user_input", "response", "retrieved_contexts" }
      [] m = "context_recall" -> { "user_input", "reference", "retrieved_contexts" }
      [] m = "factual_correctness" -> { "user_input", "response", "reference" }
      [] m = "semantic_similarity" -> { "response", "reference" }

Usable(row, f) ==
    /\ f \in DOMAIN row
    /\ row[f][1] # "null"
    /\ ~(row[f][1] = "str" /\ \A i \in 1..Len(row[f][2]) : row[f][2][i] \in Whitespace)
    /\ ~(row[f][1] = "list" /\ row[f][2] = <<>>)

Eligible(rs, m) == \A i \in 1..Len(rs) : \A f \in RequiredFields(m) : Usable(rs[i], f)

EligibleSet(rs) == { m \in KnownMetrics : Eligible(rs, m) }

EligibleInOrder(rs) == SelectSeq(MetricOrder, LAMBDA m : Eligible(rs, m))

SeqSet(s) == { s[i] : i \in 1..Len(s) }

Occurrences(s, x) == Cardinality({ i \in 1..Len(s) : s[i] = x })

MaxOf(S) == CHOOSE x \in S : \A y \in S : y <= x

MinOf(S) == CHOOSE x \in S : \A y \in S : x <= y

\* the name the object of a selected metric reports: the key of its field
\* on the rows and of its entry in summary and metric_failures
NameOf(m) == metric_name_of(metric_classes[m])

Failed(message) == pc = "failed" /\ error # NoError /\ error[2] = message

\* the errors that end a run; a raise of the scorer is none of them
AbortMessages ==
    { MSG_LLM, MSG_EMBEDDING, MSG_GROUP_BY, MSG_JSON, MSG_ROW, MSG_EMPTY,
      MSG_REGION, MSG_EVALUATOR, MSG_UNSUPPORTED, MSG_MISSING, MSG_INDEX,
      MSG_CONSTRUCTOR, MSG_WRITE }

\* the groups whose scoring state can be read: the reported ones, and the
\* one score_rows is working on
ViewedGroups == (1..Len(groups_output)) \cup (IF pc = "score" THEN { gi } ELSE {})

ReportedGroups == 1..Len(groups_output)

View(g) ==
    IF g <= Len(groups_output)
    THEN [ selected |-> groups_output[g].selected_metrics,
           available |-> groups_output[g].auto_available_metrics,
           rows |-> groups_output[g].rows,
           summary |-> groups_output[g].summary,
           failures |-> groups_output[g].metric_failures ]
    ELSE [ selected |-> metric_names,
           available |-> available_metrics,
           rows |-> scored_rows,
           summary |-> summary,
           failures |-> failures ]

CallsOf(g, m) == { i \in 1..Len(calls) : calls[i].group = g /\ calls[i].metric = m }

CallsOfGroup(g) == { i \in 1..Len(calls) : calls[i].group = g }

HasNumeric(scores) ==
    \E r \in 1..Len(scores) : scores[r][1] \in { "num", "nan", "bool" }

Raised(g, m) == \E i \in CallsOf(g, m) : calls[i].raised

ReturnedNumeric(g, m) ==
    \E i \in CallsOf(g, m) : ~calls[i].raised /\ HasNumeric(calls[i].scores)

(***************************************************************************)
(* C1.  As stated: for every group that was scored and every metric among  *)
(* its selected metrics, once score_rows has returned the metric's name is *)
(* a key of exactly one of the group's summary and its metric_failures.    *)
(***************************************************************************)
C1_ExactlyOneOfSummaryAndFailures ==
    \A g \in ReportedGroups :
        \A m \in SeqSet(groups_output[g].selected_metrics) :
            (NameOf(m) \in DOMAIN groups_output[g].summary)
                # (NameOf(m) \in DOMAIN groups_output[g].metric_failures)

(***************************************************************************)
(* C1, amended.  Once score_rows has returned, the name of a selected      *)
(* metric is a key of metric_failures exactly when an invocation of the    *)
(* scorer for it raised, and a key of summary exactly when an invocation   *)
(* returned at least one numeric score.  A metric selected once is never   *)
(* in both, and is in neither exactly when the scorer returned without any *)
(* numeric score.                                                          *)
(***************************************************************************)
C1_SummaryAndFailuresByOutcome ==
    \A g \in ReportedGroups :
        \A out \in { groups_output[g] } :
            \A m \in SeqSet(out.selected_metrics) :
                /\ (NameOf(m) \in DOMAIN out.metric_failures) <=> Raised(g, m)
                /\ (NameOf(m) \in DOMAIN out.summary) <=> ReturnedNumeric(g, m)
                /\ Occurrences(out.selected_metrics, m) = 1 =>
                      /\ ~(/\ NameOf(m) \in DOMAIN out.summary
                           /\ NameOf(m) \in DOMAIN out.metric_failures)
                      /\ (/\ NameOf(m) \notin DOMAIN out.summary
                          /\ NameOf(m) \notin DOMAIN out.metric_failures)
                            <=> \E i \in CallsOf(g, m) :
                                    ~calls[i].raised /\ ~HasNumeric(calls[i].scores)

\* a report in which a metric selected once is in neither map, and another
\* metric of the same group is in summary
C1_Witness ==
    /\ pc = "done"
    /\ \E g \in ReportedGroups :
          LET out == groups_output[g]
          IN  /\ Len(out.selected_metrics) = 2
              /\ out.selected_metrics[1] # out.selected_metrics[2]
              /\ NameOf(out.selected_metrics[1]) \notin DOMAIN out.summary
              /\ NameOf(out.selected_metrics[1]) \notin DOMAIN out.metric_failures
              /\ NameOf(out.selected_metrics[2]) \in DOMAIN out.summary

(***************************************************************************)
(* C2.  Failure isolation in score_rows.  For every metric the scorer was  *)
(* invoked for in a group: if its latest invocation raised, the message is *)
(* stored in failures under the metric's name and the field of that name   *)
(* is null on every row of the group; if it returned, every row holds the  *)
(* score returned for it, and summary holds the mean of the numeric ones;  *)
(* every selected metric before the loop position has been invoked         *)
(* whatever the earlier outcomes were; a raise of the scorer never ends    *)
(* the run, and a finished run has written its report.                     *)
(***************************************************************************)
MeanIs(value, scores) ==
    LET numeric == { r \in 1..Len(scores) : scores[r][1] = "num" }
        RECURSIVE Sum(_)
        Sum(S) == IF S = {} THEN 0
                  ELSE LET r == CHOOSE r \in S : TRUE
                       IN  scores[r][2] + Sum(S \ { r })
    IN  IF \E r \in 1..Len(scores) : scores[r][1] = "nan"
        THEN value[1] = "nan"
        ELSE /\ value[1] = "num"
             /\ value[3] > 0
             /\ value[2] * Cardinality(numeric) = Sum(numeric) * value[3]

C2_FailureIsolation ==
    /\ \A g \in ViewedGroups :
       \A v \in { View(g) } :
          /\ Cardinality(CallsOfGroup(g)) =
                 IF g <= Len(groups_output) THEN Len(v.selected) ELSE mi - 1
          /\ \A m \in SeqSet(v.selected) :
                CallsOf(g, m) # {} =>
                    \A last \in { calls[MaxOf(CallsOf(g, m))] } :
                    \A numeric \in { { i \in CallsOf(g, m) :
                                        ~calls[i].raised /\ HasNumeric(calls[i].scores) } } :
                        /\ last.name = NameOf(m)
                        /\ last.raised =>
                              /\ last.name \in DOMAIN v.failures
                              /\ v.failures[last.name] = last.message
                              /\ \A r \in 1..Len(v.rows) :
                                    /\ last.name \in DOMAIN v.rows[r]
                                    /\ v.rows[r][last.name] = None
                        /\ ~last.raised =>
                              /\ Len(v.rows) = Len(last.scores)
                              /\ \A r \in 1..Len(v.rows) :
                                    /\ last.name \in DOMAIN v.rows[r]
                                    /\ v.rows[r][last.name] = last.scores[r]
                        /\ numeric # {} =>
                              /\ last.name \in DOMAIN v.summary
                              /\ MeanIs(v.summary[last.name], calls[MaxOf(numeric)].scores)
    /\ pc = "failed" =>
          /\ error # NoError
          /\ error[2] \in AbortMessages
          /\ (calls # <<>> /\ calls[Len(calls)].raised) =>
                error[2] \in { MSG_MISSING, MSG_WRITE }
    /\ pc = "done" => report # <<>> /\ Len(report[1].groups) = Len(grouped)

\* the scorer raised for semantic_similarity and returned numbers for
\* factual_correctness on the same group, whose object reports another
\* name, and the report is written
C2_Witness ==
    /\ pc = "done"
    /\ NameOf("factual_correctness") # "factual_correctness"
    /\ \E g \in ReportedGroups :
          LET out == groups_output[g]
          IN  /\ out.selected_metrics = << "semantic_similarity", "factual_correctness" >>
              /\ NameOf("semantic_similarity") \in DOMAIN out.metric_failures
              /\ NameOf("factual_correctness") \in DOMAIN out.summary
              /\ NameOf("factual_correctness") \notin DOMAIN out.metric_failures
              /\ Len(out.rows) = 2
              /\ \A r \in 1..Len(out.rows) :
                    out.rows[r][NameOf("semantic_similarity")] = None
              /\ out.rows[1][NameOf("factual_correctness")] = Num(0, 1)

(***************************************************************************)
(* C3.  A metric is in the eligible set of a group exactly when every row  *)
(* of the group has a usable value (not absent, not null, not a string     *)
(* that is empty after trimming, not an empty list; falsy numbers and      *)
(* booleans are usable) for every field the metric requires; the eligible  *)
(* list names each metric once; a second analysis of the same rows gives   *)
(* the same list.                                                          *)
(***************************************************************************)
C3_EligibilityGate ==
    pc \in { "elig_once", "elig_twice" } =>
        /\ SeqSet(available_metrics) = EligibleSet(rows)
        /\ \A m \in KnownMetrics : Occurrences(available_metrics, m) <= 1
        /\ \A i \in 1..Len(calls) : calls[i] = available_metrics

\* two rows: the first has the number 0 as user_input, the second an empty
\* list of contexts, which alone removes the two context metrics
C3_Witness ==
    /\ pc = "elig_twice"
    /\ Len(rows) = 2
    /\ rows[1] = Put(full_row, "user_input", Num(0, 1))
    /\ rows[2] = Put(full_row, "retrieved_contexts", List(<<>>))
    /\ available_metrics =
           << "response_relevancy", "factual_correctness", "semantic_similarity" >>

(***************************************************************************)
(* C4.  With a non-empty explicit request: the run fails at a group with   *)
(* the unsupported-metric error if a requested name is not one of the five *)
(* known metrics, whatever the group's eligibility; otherwise with the     *)
(* missing-fields error if a requested metric is not eligible for the      *)
(* group; otherwise the group's selected list is the requested list        *)
(* unchanged and its available list is the eligible set.                   *)
(***************************************************************************)
HasUnsupported == \E m \in SeqSet(requested_metrics) : m \notin KnownMetrics

C4_ExplicitRequest ==
    requested_metrics # <<>> =>
        /\ \A g \in ViewedGroups :
           \A eligible \in { EligibleInOrder(grouped[g].rows) } :
           \A v \in { View(g) } :
              /\ ~HasUnsupported
              /\ SeqSet(requested_metrics) \subseteq SeqSet(eligible)
              /\ v.selected = requested_metrics
              /\ v.available = eligible
        /\ (pc = "failed" /\ grouped # <<>> /\ error[2] \notin { MSG_CONSTRUCTOR, MSG_INDEX, MSG_WRITE }) =>
              IF HasUnsupported
              THEN /\ error[2] = MSG_UNSUPPORTED
                   /\ SeqSet(error[3]) = SeqSet(requested_metrics) \ KnownMetrics
              ELSE /\ error[2] = MSG_MISSING
                   /\ ~(SeqSet(requested_metrics) \subseteq EligibleSet(grouped[gi].rows))
                   /\ SeqSet(error[3]) = SeqSet(requested_metrics) \ EligibleSet(grouped[gi].rows)

\* an explicit request in another order than the group's preference list
\* is taken as it is
C4_Witness ==
    /\ pc = "score"
    /\ requested_metrics = << "factual_correctness", "semantic_similarity" >>
    /\ normalize_group_name(grouped[gi].key) = s_work_search
    /\ metric_names = << "factual_correctness", "semantic_similarity" >>
    /\ available_metrics =
           << "response_relevancy", "factual_correctness", "semantic_similarity" >>

(***************************************************************************)
(* C5.  Without an explicit request: the preference list is                *)
(* [semantic_similarity, factual_correctness] for a group whose normalized *)
(* name is "qa", [semantic_similarity] for "work-search" and "work", and   *)
(* there is none otherwise.  If some preferred metric is eligible, the     *)
(* selected list is the preference list filtered to the eligible metrics;  *)
(* in every other case it is the eligible set in declaration order.  The   *)
(* selected metrics are always eligible.                                   *)
(***************************************************************************)
NameQa == text(<< "q", "a" >>)

NameWork == text(<< "w", "o", "r", "k" >>)

NameWorkSearch == text(<< "w", "o", "r", "k", "-", "s", "e", "a", "r", "c", "h" >>)

PreferenceList(key) ==
    LET name == replace(lower(strip(key)), c_underscore, c_hyphen)
    IN  IF name = NameQa
        THEN << "semantic_similarity", "factual_correctness" >>
        ELSE IF name = NameWork \/ name = NameWorkSearch
        THEN << "semantic_similarity" >>
        ELSE <<>>

C5_AutoSelection ==
    requested_metrics = <<>> =>
        \A g \in ViewedGroups :
        \A eligible \in { EligibleInOrder(grouped[g].rows) } :
        \A preferred \in { SelectSeq(PreferenceList(grouped[g].key),
                                     LAMBDA m : m \in SeqSet(eligible)) } :
        \A v \in { View(g) } :
            /\ v.available = eligible
            /\ v.selected = IF preferred # <<>> THEN preferred ELSE eligible
            /\ SeqSet(v.selected) \subseteq SeqSet(eligible)

\* a group reported as "WorK_Search" (its K the Kelvin sign) whose rows
\* carry user_input, response and reference: three metrics are eligible,
\* the preference selects one
C5_Witness ==
    /\ pc = "score"
    /\ requested_metrics = <<>>
    /\ grouped[gi].key = text(<< "W", "o", "r" >>) \o << 8490 >>
                            \o text(<< "_", "S", "e", "a", "r", "c", "h" >>)
    /\ metric_names = << "semantic_similarity" >>
    /\ available_metrics =
           << "response_relevancy", "factual_correctness", "semantic_similarity" >>

(***************************************************************************)
(* C6.  A run that ended with an error has written no report, and a        *)
(* report is written only by a run that ended without error.  The empty    *)
(* input and an unsupported requested metric end the run before the scorer *)
(* is invoked at all; a requested metric that lacks fields in a group ends *)
(* the run at that group, before the scorer is invoked for it, whatever    *)
(* was scored for the groups before it.                                    *)
(***************************************************************************)
ArgsAccepted ==
    llm_model # "" /\ embedding_model # "" /\ group_by \in { "category", "none" }

EmptyInput == input_file[2] = <<>>

C6_ConfigurationErrorsAbort ==
    /\ pc = "failed" => report = <<>> /\ error # NoError
    /\ report # <<>> => pc = "done" /\ error = NoError
    /\ (EmptyInput \/ HasUnsupported) =>
          calls = <<>> /\ report = <<>> /\ groups_output = <<>>
    /\ (EmptyInput /\ ArgsAccepted /\ pc # "start") => Failed(MSG_EMPTY)
    /\ (HasUnsupported /\ pc \notin { "start", "pick" }) => pc = "failed"
    /\ (HasUnsupported /\ grouped # <<>> /\ pc # "pick") => Failed(MSG_UNSUPPORTED)
    /\ requested_metrics # <<>> =>
          \A g \in 1..Len(grouped) :
              ~(SeqSet(requested_metrics) \subseteq EligibleSet(grouped[g].rows)) =>
                  /\ CallsOfGroup(g) = {}
                  /\ gi <= g
                  /\ pc # "done"
                  /\ (gi = g /\ pc # "pick") => pc = "failed"
                  /\ (gi = g /\ pc # "pick" /\ ~HasUnsupported) => Failed(MSG_MISSING)

\* the second group lacks a field of a requested metric: the run fails
\* there, after the first group was scored, and nothing is written
C6_Witness ==
    /\ Failed(MSG_MISSING)
    /\ gi = 2
    /\ Len(groups_output) = 1
    /\ calls # <<>>
    /\ report = <<>>

(***************************************************************************)
(* C7.  As stated: a group for which no metric is eligible is reported,    *)
(* with no selected metric, an empty summary and the single advisory       *)
(* failure under "_group", without any scorer invocation and with its rows *)
(* in the report, and the run goes on.  (A failure of the run at such a    *)
(* group counts against the statement only if it is the missing-fields     *)
(* error, which is about the group.)                                       *)
(***************************************************************************)
ZeroEligibleGroupReported ==
    \A g \in 1..Len(grouped) :
        EligibleSet(grouped[g].rows) = {} =>
            /\ CallsOfGroup(g) = {}
            /\ (g = gi) => pc # "score" /\ ~Failed(MSG_MISSING)
            /\ (g < gi) =>
                  /\ g <= Len(groups_output)
                  /\ groups_output[g].selected_metrics = <<>>
                  /\ groups_output[g].summary = EmptyMap
                  /\ DOMAIN groups_output[g].metric_failures = { "_group" }
                  /\ groups_output[g].metric_failures["_group"] = ADVISORY
                  /\ groups_output[g].row_count = Len(grouped[g].rows)
                  /\ Len(groups_output[g].rows) = Len(grouped[g].rows)
                  /\ \A r \in 1..Len(grouped[g].rows) :
                        \A k \in (DOMAIN grouped[g].rows[r]) \ { "evaluation_group" } :
                            /\ k \in DOMAIN groups_output[g].rows[r]
                            /\ groups_output[g].rows[r][k] = grouped[g].rows[r][k]

C7_ZeroEligibleGroupIsNotAnError == ZeroEligibleGroupReported

(***************************************************************************)
(* C7, amended.  When no metric is explicitly requested, a group for which *)
(* no metric is eligible is reported, with no selected metric, an empty    *)
(* summary and the single advisory failure under "_group", without any     *)
(* scorer invocation and with its rows in the report, and the run goes on  *)
(* with the remaining groups: it never ends at the selection of a group.   *)
(* With an explicit request such a group is never reported and the scorer  *)
(* is never invoked for it: when the run reaches its selection it ends     *)
(* there, with the unsupported-metric error if the request names a metric  *)
(* that is not known, and with the missing-fields error otherwise.         *)
(***************************************************************************)
C7_ZeroEligibleGroupAutoSelection ==
    /\ requested_metrics = <<>> =>
          /\ ZeroEligibleGroupReported
          /\ ~Failed(MSG_MISSING) /\ ~Failed(MSG_UNSUPPORTED)
          /\ (pc = "failed" /\ grouped # <<>>) =>
                \/ /\ Failed(MSG_CONSTRUCTOR) \/ Failed(MSG_INDEX)
                   /\ EligibleSet(grouped[gi].rows) # {}
                \/ Failed(MSG_WRITE) /\ Len(groups_output) = Len(grouped)
          /\ pc = "done" => Len(groups_output) = Len(grouped)
    /\ requested_metrics # <<>> =>
          \A g \in 1..Len(grouped) :
              EligibleSet(grouped[g].rows) = {} =>
                  /\ CallsOfGroup(g) = {}
                  /\ Len(groups_output) < g
                  /\ gi <= g
                  /\ (gi = g /\ pc # "pick") =>
                        IF HasUnsupported
                        THEN Failed(MSG_UNSUPPORTED)
                        ELSE Failed(MSG_MISSING)

\* a group without eligible metric is reported first, then another group
\* is scored and the report is written
C7_Witness ==
    /\ pc = "done"
    /\ requested_metrics = <<>>
    /\ Len(groups_output) >= 2
    /\ EligibleSet(grouped[1].rows) = {}
    /\ groups_output[1].selected_metrics = <<>>
    /\ "_group" \in DOMAIN report[1].metric_failures_by_group[1].value
    /\ CallsOfGroup(2) # {}

(***************************************************************************)
(* C8.  Grouping partitions the input: the loaded rows are the objects of  *)
(* the input file; there is an assignment of the rows to the groups under  *)
(* which every group holds exactly its rows, in input order, and no group  *)
(* is empty; the groups' keys are distinct; the row counts of the groups   *)
(* of a written report add up to its row_count, the number of input rows;  *)
(* with grouping "none" there is one group, keyed "all", holding every     *)
(* input row.                                                              *)
(***************************************************************************)
NameAll == text(<< "a", "l", "l" >>)

RowsAssigned(f, g) ==
    LET idx == SelectSeq([i \in 1..Len(rows) |-> i], LAMBDA i : f[i] = g)
    IN  [j \in 1..Len(idx) |-> rows[idx[j]]]

RECURSIVE SumRowCounts(_)
SumRowCounts(gs) ==
    IF gs = <<>> THEN 0 ELSE Head(gs).row_count + SumRowCounts(Tail(gs))

C8_GroupingPartitions ==
    /\ rows # <<>> => input_file[2] = [i \in 1..Len(rows) |-> Dict(rows[i])]
    /\ grouped # <<>> =>
        /\ \E f \in [1..Len(rows) -> 1..Len(grouped)] :
              \A g \in 1..Len(grouped) :
                  grouped[g].rows = RowsAssigned(f, g) /\ grouped[g].rows # <<>>
        /\ \A g, h \in 1..Len(grouped) : grouped[g].key = grouped[h].key => g = h
        /\ group_by = "none" =>
              /\ Len(grouped) = 1
              /\ grouped[1].key = NameAll
              /\ grouped[1].rows = rows
        /\ pc = "done" =>
              /\ report[1].row_count = Len(rows)
              /\ SumRowCounts(report[1].groups) = report[1].row_count
              /\ report[1].group_count = Len(report[1].groups)
              /\ \A g \in 1..Len(grouped) :
                    /\ report[1].groups[g].key = grouped[g].key
                    /\ report[1].groups[g].row_count = Len(grouped[g].rows)
    /\ pc \in { "pick", "score", "done" } => grouped # <<>>

\* three rows in two groups, the rows of the first group not adjacent
C8_Witness ==
    /\ pc = "done"
    /\ group_by = "category"
    /\ Len(rows) = 3
    /\ report[1].group_count = 2
    /\ report[1].groups[1].row_count = 2
    /\ report[1].groups[2].row_count = 1
    /\ get_group_key(rows[2], group_by) # get_group_key(rows[1], group_by)

(***************************************************************************)
(* C9.  In a written report the flattened row list holds every input row   *)
(* once: the rows of the group whose key was seen first come first, and    *)
(* inside a group the rows keep their input order; every row carries       *)
(* evaluation_group equal to the key of its group, whatever the input row  *)
(* held there, and keeps every other field of the input row.               *)
(***************************************************************************)
KeyOfRow(i) == get_group_key(rows[i], group_by)

FirstSeenOf(key) ==
    [i \in 1..Len(rows) |-> MinOf({ j \in 1..Len(rows) : key[j] = key[i] })]

\* where the i-th input row belongs in the flattened list: behind the rows
\* of the groups seen before its group, and behind the earlier rows of its
\* own group
PlacesOf(first) ==
    [i \in 1..Len(rows) |->
        Cardinality({ j \in 1..Len(rows) : \/ first[j] < first[i]
                                           \/ first[j] = first[i] /\ j < i }) + 1]

PlaceOf(i) == PlacesOf(FirstSeenOf([j \in 1..Len(rows) |-> KeyOfRow(j)]))[i]

MetricFieldNames == { NameOf(m) : m \in KnownMetrics }

C9_FlattenedRows ==
    pc = "done" =>
        \A key \in { [i \in 1..Len(rows) |-> KeyOfRow(i)] } :
        \A place \in { PlacesOf(FirstSeenOf(key)) } :
        \A flat \in { report[1].rows } :
            /\ Len(flat) = Len(rows)
            /\ \A i \in 1..Len(rows) :
                  \A row \in { flat[place[i]] } :
                      /\ "evaluation_group" \in DOMAIN row
                      /\ row["evaluation_group"] = Str(key[i])
                      /\ \A k \in (DOMAIN rows[i]) \ { "evaluation_group" } :
                            k \in DOMAIN row /\ row[k] = rows[i][k]
                      /\ (DOMAIN row) \subseteq
                             (DOMAIN rows[i]) \cup { "evaluation_group" }
                                 \cup MetricFieldNames

\* rows of two groups interleaved in the input, the first one with an
\* evaluation_group of its own, the second one in a group without metrics
C9_Witness ==
    /\ pc = "done"
    /\ Len(rows) = 3
    /\ PlaceOf(3) = 2
    /\ PlaceOf(2) = 3
    /\ "evaluation_group" \in DOMAIN rows[1]
    /\ rows[1]["evaluation_group"] # Str(KeyOfRow(1))
    /\ groups_output[2].selected_metrics = <<>>
    /\ groups_output[1].selected_metrics # <<>>
    /\ rows[1] # rows[3]

(***************************************************************************)
(* C10.  As stated: in a finished run the scorer has been invoked exactly  *)
(* once for every pair of a group and one of its selected metrics.         *)
(***************************************************************************)
C10_OncePerGroupAndMetric ==
    pc = "done" =>
        \A g \in ReportedGroups :
            \A m \in SeqSet(groups_output[g].selected_metrics) :
                Cardinality(CallsOf(g, m)) = 1

(***************************************************************************)
(* C10, amended.  The scorer is invoked exactly once for every entry of a  *)
(* group's selected list (a metric named twice in an explicit request is   *)
(* invoked twice), whether the invocation succeeds or fails: the           *)
(* invocations so far are the selected lists of the reported groups, in    *)
(* insertion order of the groups, followed by the entries up to the loop   *)
(* position of the group being scored; and every invocation receives the   *)
(* original rows of its group.                                             *)
(***************************************************************************)
RECURSIVE ExpectedCalls(_)
ExpectedCalls(g) ==
    IF g = 0 THEN <<>>
    ELSE ExpectedCalls(g - 1)
         \o [i \in 1..Len(groups_output[g].selected_metrics) |->
                << g, groups_output[g].selected_metrics[i] >>]

C10_OncePerSelectedEntry ==
    /\ [i \in 1..Len(calls) |-> << calls[i].group, calls[i].metric >>]
           = ExpectedCalls(Len(groups_output))
              \o (IF pc = "score"
                  THEN [i \in 1..(mi - 1) |-> << gi, metric_names[i] >>]
                  ELSE IF Failed(MSG_INDEX)
                  THEN [i \in 1..mi |-> << gi, metric_names[i] >>]
                  ELSE <<>>)
    /\ \A i \in 1..Len(calls) : calls[i].rows = grouped[calls[i].group].rows

\* the first invocation failed, the second one is for the same group, a
\* later one for the next group
C10_Witness ==
    /\ pc = "done"
    /\ Len(calls) >= 3
    /\ calls[1].raised
    /\ calls[2].group = 1
    /\ ~calls[2].raised
    /\ HasNumeric(calls[2].scores)
    /\ calls[3].group = 2

====
